---- MODULE Spec2Model ----
(***************************************************************************)
(* A model of the GRP panel-tank configurator's calculation engine         *)
(* (src/backend/app/services): the formula modules, the orchestrator that  *)
(* runs them and assembles the BOM, and the lazily filled parts catalog.   *)
(*                                                                         *)
(* Lengths are floats of metres in the source.  Here every dimension is an *)
(* integer number of QUARTER metres (4 = 1 m, 2 = 0.5 m), a grid on which  *)
(* every float operation the modelled formulas perform is exact, so that   *)
(* int(), ceil() and the == / > comparisons of the source are reproduced   *)
(* by integer arithmetic.  A "_C" field is the integer part in metres and  *)
(* a "_F" field the fractional remainder in quarter metres (2 is the       *)
(* source's 0.5).                                                          *)
(***************************************************************************)
EXTENDS Integers, Sequences, FiniteSets, TLC

(***************************************************************************)
(* Bounds of the model.                                                    *)
(***************************************************************************)
\* widths and first lengths of the grid: 0.5 m .. MaxGridHalves * 0.5 m
MaxGridHalves == 5
\* second length segment of the grid: 0 .. MaxPartHalves * 0.5 m
MaxPartHalves == 2
\* heights: 0.25 m .. MaxHeightQuarters * 0.25 m
MaxHeightQuarters == 21
\* number of tanks requested
MaxQuantity == 2
\* calls of calculate() made on one engine
MaxCalls == 2

(***************************************************************************)
(* Arithmetic of the source on the quarter-metre grid.                     *)
(***************************************************************************)
Max(a, b) == IF a >= b THEN a ELSE b

Min(a, b) == IF a <= b THEN a ELSE b

Abs(a) == IF a >= 0 THEN a ELSE -a

Sign(a) == IF a > 0 THEN 1 ELSE IF a < 0 THEN -1 ELSE 0

\* Python int(n / d) for d > 0: truncation toward zero
Trunc(n, d) == IF n >= 0 THEN n \div d ELSE -((-n) \div d)

\* Python math.ceil(n / d) for d > 0
Ceil(n, d) == -((-n) \div d)

\* int(x) and x - int(x) of a non-negative dimension x
IntPart(x) == x \div 4

FracPart(x) == x % 4

\* sum(1 for f in fs if f > 0)
CountPositive(fs) == Cardinality({i \in DOMAIN fs : fs[i] > 0})

\* the dict one calculator appends to its parts list
Line(part_no, quantity, category, description) ==
    [part_no |-> part_no, quantity |-> quantity,
     category |-> category, description |-> description]

\* "if cond: parts.append(line)"
When(cond, line) == IF cond THEN <<line>> ELSE <<>>

\* [p for p in parts if p['quantity'] > 0]
PositiveOnly(parts) == SelectSeq(parts, LAMBDA p : p.quantity > 0)

\* the quantity of the lines of a part in a list of lines, 0 if there is none
RECURSIVE QuantityOf(_, _)
QuantityOf(lines, part_no) ==
    IF lines = <<>> THEN 0
    ELSE (IF Head(lines).part_no = part_no THEN Head(lines).quantity ELSE 0)
         + QuantityOf(Tail(lines), part_no)

(***************************************************************************)
(* Python floats of the tape, rod-length and currency arithmetic.  Every   *)
(* value there is a decimal number held in an IEEE-754 double, so a float  *)
(* is the pair [c, e] standing for c/1600 + e * 2^-60 / 100: the decimal   *)
(* value in sixteenths of a hundredth and the rounding error the double    *)
(* carries.                                                                *)
(***************************************************************************)
\* 2^k modulo 100 for k in 0..66, by three factors that fit a machine word
Pow2Mod100(k) ==
    LET a == k \div 3
    IN  ((2^a % 100) * (2^a % 100) * (2^(k - 2 * a) % 100)) % 100

\* floor(log2(a / 1600)) for a in 7 .. 1600 * 2^15 - 1
FLog2(a) ==
    CHOOSE k \in (-8)..14 :
        \/ k >= 0 /\ 1600 * 2^k <= a /\ a < 3200 * 2^k
        \/ k < 0 /\ a < 1600 /\ 1600 <= a * 2^(-k) /\ a * 2^(-k) < 3200

\* whether a = 1600 * 2^E
FIsPower(a, E) == IF E >= 0 THEN a = 1600 * 2^E ELSE a * 2^(-E) = 1600

\* the exponent of the binade x lies in, given E for its decimal part: one
\* less when the decimal part is a power of two and the error points to zero
FExponentFrom(x, E) ==
    IF FIsPower(Abs(x.c), E) /\ ((x.c > 0 /\ x.e < 0) \/ (x.c < 0 /\ x.e > 0))
    THEN E - 1 ELSE E

\* the binary exponent of a non-zero float: 2^E <= |x| < 2^(E+1)
FExponent(x) == FExponentFrom(x, FLog2(Abs(x.c)))

\* x modulo 2^(j-60), the spacing of the doubles of exponent j - 8, in
\* units of 2^-60 / 100
FResidue(x, j) ==
    (2^j * (((x.c % 100) * Pow2Mod100(56 - j)) % 100) + x.e) % (100 * 2^j)

\* x less its residue rem, or that plus the spacing 100 * 2^j: the nearer
\* one, the one of even mantissa when x is half way
FNearest(x, j, rem) ==
    IF 2 * rem < 100 * 2^j THEN [x EXCEPT !.e = @ - rem]
    ELSE IF 2 * rem > 100 * 2^j \/ FResidue(x, j + 1) >= 100 * 2^j
         THEN [x EXCEPT !.e = @ + 100 * 2^j - rem]
         ELSE [x EXCEPT !.e = @ - rem]

\* the double of exponent j - 8 nearest to x
FRoundAt(x, j) == FNearest(x, j, FResidue(x, j))

\* the double nearest to x, ties to the even mantissa.  Here and below an
\* operand is bound to its value once, as Python evaluates an operand before
\* it applies the operator.
FRound(x0) ==
    CHOOSE r \in {IF x.c = 0 THEN x ELSE FRoundAt(x, FExponent(x) + 8) :
                      x \in {x0}} : TRUE

\* a decimal literal such as 2.1, given in hundredths
FConst(hundredths) == FRound([c |-> 16 * hundredths, e |-> 0])

\* float(n) of an integer
FInt(n) == [c |-> 1600 * n, e |-> 0]

\* n * x for an integer n
FMul(n, x0) ==
    CHOOSE r \in {FRound([c |-> n * x.c, e |-> n * x.e]) : x \in {x0}} : TRUE

\* (n / d) * x for an integer n and d a power of two: dividing a double by
\* d is exact
FMulOver(n, d, x0) ==
    CHOOSE r \in {FRound([c |-> (n * x.c) \div d, e |-> (n * x.e) \div d]) :
                      x \in {x0}} : TRUE

\* x + y
FAdd(x0, y0) ==
    CHOOSE r \in {FRound([c |-> x.c + y.c, e |-> x.e + y.e]) :
                      x \in {x0}, y \in {y0}} : TRUE

\* math.ceil(x)
FCeil(x0) ==
    CHOOSE r \in {IF x.c % 1600 = 0
                  THEN x.c \div 1600 + (IF x.e > 0 THEN 1 ELSE 0)
                  ELSE Ceil(x.c, 1600) : x \in {x0}} : TRUE

\* -x
FNeg(x) == [c |-> -x.c, e |-> -x.e]

\* int(x): truncation toward zero
FTrunc(x0) ==
    CHOOSE r \in {IF x.c >= 0
                  THEN x.c \div 1600 - (IF x.c % 1600 = 0 /\ x.c > 0 /\ x.e < 0 THEN 1 ELSE 0)
                  ELSE -((-x.c) \div 1600)
                       + (IF (-x.c) % 1600 = 0 /\ x.e > 0 THEN 1 ELSE 0) : x \in {x0}} : TRUE

\* x + y + ... from 0, left to right: sum() and a chain of "+="
RECURSIVE FSum(_, _)
FSum(acc, terms) ==
    IF terms = <<>> THEN acc ELSE FSum(FAdd(acc, Head(terms)), Tail(terms))

\* round(x, 2) in hundredths: the nearest hundredth to the double, the even
\* one when the double is half way
RoundToCent(x0) ==
    CHOOSE r \in {LET q == x.c \div 16
                      rem == x.c % 16
                  IN  IF rem < 8 THEN q
                      ELSE IF rem > 8 \/ x.e > 0 THEN q + 1
                      ELSE IF x.e < 0 \/ q % 2 = 0 THEN q
                      ELSE q + 1 : x \in {x0}} : TRUE

\* 2^k modulo 10000 for k in 0..60, by two factors that fit a machine word
Pow2Mod10000(k) ==
    LET a == k \div 2
    IN  ((2^a % 10000) * (2^(k - a) % 10000)) % 10000

\* floor(log2(n / 10000)) for n in 40 .. 20000 * 2^16 - 1
FLog2OfProduct(n) ==
    CHOOSE k \in (-8)..16 :
        \/ k >= 0 /\ 10000 * 2^k <= n /\ n < 20000 * 2^k
        \/ k < 0 /\ n < 10000 /\ 10000 <= n * 2^(-k) /\ n * 2^(-k) < 20000

\* whether the double x * y lies above (1), on (0) or below (-1) the product
\* n / 10000 of the decimal parts, n = t * r with x.c = 16 * t, y.c = 16 * r.
\* In units of 2^-60 / 10000 the exact product of the doubles is
\* n * 2^60 + D + (x.e * y.e) * 2^-60 with D = t * y.e + r * x.e, and the
\* doubles near it are 10000 * 2^j apart; all of it is divided by 2^s, a
\* power of two that divides both errors.
FProductSide(x, y) ==
    LET t == x.c \div 16
        r == y.c \div 16
        n == t * r
        E == FLog2OfProduct(n)
        s0 == Min(FExponent(x), FExponent(y)) + 8
        D0 == t * (y.e \div 2^s0) + r * (x.e \div 2^s0)
        quad == Sign(x.e) * Sign(y.e)
        j == IF n = 1250 /\ (D0 < 0 \/ (D0 = 0 /\ quad < 0)) THEN E + 7 ELSE E + 8
        s == Min(s0, j)
        U == 10000 * 2^(j - s)
        rho == 2^(j - s) * (((n % 10000) * Pow2Mod10000(60 - j)) % 10000)
        d == rho + D0 * 2^(s0 - s)
        k == d \div U
        f == d % U
        odd == IF ((n % 10000) * Pow2Mod10000(59 - j)) % 10000 >= 5000 THEN 1 ELSE 0
        m == IF 2 * f < U THEN k
             ELSE IF 2 * f > U \/ quad > 0 THEN k + 1
             ELSE IF quad < 0 \/ (k + odd) % 2 = 0 THEN k
             ELSE k + 1
    IN  Sign(m * U - rho)

\* round(x * y, 2) in hundredths, for x a sum of amounts and y a rate, both
\* of two decimals: the product of the decimal parts has four, and the
\* double decides only when it ends in 50
RoundProductToCent(x0, y0) ==
    CHOOSE c \in {LET n == (x.c \div 16) * (y.c \div 16)
                      q == n \div 100
                  IN  IF n % 100 < 50 THEN q
                      ELSE IF n % 100 > 50 THEN q + 1
                      ELSE LET side == FProductSide(x, y)
                           IN  IF side > 0 THEN q + 1
                               ELSE IF side < 0 \/ q % 2 = 0 THEN q
                               ELSE q + 1 : x \in {x0}, y \in {y0}} : TRUE

(***************************************************************************)
(* PanelCalculator (panel_calculator.py)                                   *)
(***************************************************************************)
\* the standard heights, in quarter metres, in the order of the source list
StandardHeights == <<4, 6, 8, 10, 12, 14, 16, 18, 20>>

\* PANEL_HEIGHT_CONFIG: every suffix is three characters, kept as its
\* first two characters and its last one, so that suffix[:2] and
\* suffix[:-1] are both the first component
PANEL_HEIGHT_CONFIG ==
    [k \in {4, 6, 8, 10, 12, 14, 16, 18, 20} |->
        CASE k = 4  -> [side |-> <<"10", "S">>, bottom |-> <<"10", "M">>, drain |-> <<"10", "M">>]
          [] k = 6  -> [side |-> <<"15", "S">>, bottom |-> <<"15", "M">>, drain |-> <<"15", "M">>]
          [] k = 8  -> [side |-> <<"20", "S">>, bottom |-> <<"20", "M">>, drain |-> <<"20", "M">>]
          [] k = 10 -> [side |-> <<"15", "T">>, bottom |-> <<"25", "M">>, drain |-> <<"25", "M">>]
          [] k = 12 -> [side |-> <<"20", "T">>, bottom |-> <<"30", "M">>, drain |-> <<"30", "M">>]
          [] k = 14 -> [side |-> <<"15", "T">>, bottom |-> <<"35", "M">>, drain |-> <<"35", "M">>]
          [] k = 16 -> [side |-> <<"20", "T">>, bottom |-> <<"40", "M">>, drain |-> <<"40", "M">>]
          [] k = 18 -> [side |-> <<"15", "T">>, bottom |-> <<"45", "M">>, drain |-> <<"45", "M">>]
          [] k = 20 -> [side |-> <<"20", "T">>, bottom |-> <<"50", "M">>, drain |-> <<"50", "M">>]]

Suffix(s) == s[1] \o s[2]

\* PanelCalculator.__init__: the fields the methods read
PanelCalculator(width, length1, length2, length3, length4, height, use_side_1x1, use_partition_1x1, insulated) ==
    [width |-> width, height |-> height,
     use_side_1x1 |-> use_side_1x1,
     use_partition_1x1 |-> use_partition_1x1,
     insulated |-> insulated,
     W_C |-> IntPart(width), W_F |-> FracPart(width),
     L_F |-> <<FracPart(length1), FracPart(length2),
               FracPart(length3), FracPart(length4)>>,
     H_C |-> IntPart(height), H_F |-> FracPart(height),
     L_O_C |-> IntPart(length1) + IntPart(length2)
               + IntPart(length3) + IntPart(length4),
     N_PA |-> CountPositive(<<length2, length3, length4>>),
     H_O |-> height]

\* min(standard_heights, key=lambda x: abs(x - height)): the first of the
\* closest standard heights
Panel_get_height_key(self) ==
    LET d(i) == Abs(StandardHeights[i] - self.height)
        best == CHOOSE i \in DOMAIN StandardHeights :
                    /\ \A j \in DOMAIN StandardHeights : d(i) <= d(j)
                    /\ \A j \in DOMAIN StandardHeights : d(j) = d(i) => i <= j
    IN  StandardHeights[best]

\* variant: one manhole whatever the number of partitions
Panel_calc_manhole_single(self) ==
    <<Line("MF00M", 1, "Panels", "Manhole Panel")>>

Panel_calc_manhole(self) ==
    <<Line("MF00M", 1 + self.N_PA, "Panels", "Manhole Panel")>>

Panel_calc_roof_panels(self) ==
    LET manhole_qty == 1 + self.N_PA
        l_fractions_count == CountPositive(self.L_F)
        has_length_fraction == l_fractions_count > 0
        rq_qty == IF self.W_F = 2 /\ has_length_fraction
                  THEN l_fractions_count ELSE 0
        w_fraction_count == IF self.W_F > 0 THEN 1 ELSE 0
        rh_qty == self.W_C * l_fractions_count + w_fraction_count * self.L_O_C
        total_roof == self.W_C * self.L_O_C
        rf_raw == total_roof - manhole_qty - rq_qty - 0
        rf_qty == IF rf_raw < 0 THEN 0 ELSE rf_raw
    IN  When(rf_qty > 0, Line("RF00M", rf_qty, "Panels", "Roof Panel 1x1m"))
        \o When(rh_qty > 0, Line("RH10M", rh_qty, "Panels", "Half Roof Panel 0.5x1m"))
        \o When(rq_qty > 0, Line("RQ10M", rq_qty, "Panels", "Quarter Roof Panel 0.5x0.5m"))

Panel_calc_bottom_panels(self) ==
    LET x13_partition_bottom == IF self.N_PA > 0 THEN self.W_C * self.N_PA ELSE 0
        x17_drain == 1 + self.N_PA
        x15 == IF self.W_F = 2 THEN self.N_PA ELSE 0
        l_fractions_count == CountPositive(self.L_F)
        has_length_fraction == l_fractions_count > 0
        bq_qty == IF self.W_F = 2 /\ has_length_fraction
                  THEN l_fractions_count ELSE 0
        w_fraction_count == IF self.W_F > 0 THEN 1 ELSE 0
        bh_qty == self.W_C * l_fractions_count
                  + w_fraction_count * self.L_O_C - x15
        total_bottom == self.W_C * self.L_O_C
        bf_raw == total_bottom - x13_partition_bottom - x17_drain
        bf_qty == IF bf_raw < 0 THEN 0 ELSE bf_raw
        suffix == PANEL_HEIGHT_CONFIG[Panel_get_height_key(self)].bottom
    IN  When(bf_qty > 0, Line("BF" \o Suffix(suffix), bf_qty, "Panels", "Bottom Panel 1x1m"))
        \o When(bh_qty > 0, Line("BH" \o Suffix(suffix), bh_qty, "Panels", "Half Bottom Panel 0.5x1m"))
        \o When(bq_qty > 0, Line("BQ" \o Suffix(suffix), bq_qty, "Panels", "Quarter Bottom Panel 0.5x0.5m"))
        \o When(x13_partition_bottom > 0,
                Line("BF" \o suffix[1] \o "P", x13_partition_bottom, "Panels", "Partition Bottom Panel"))

Panel_calc_drain_panels(self) ==
    LET suffix == PANEL_HEIGHT_CONFIG[Panel_get_height_key(self)].drain
    IN  <<Line("DN" \o Suffix(suffix), 1 + self.N_PA, "Panels", "Drain Panel")>>

\* variant: the corner panels are not taken off the full side panels
Panel_side_full_with_corners(self) == (self.W_C + self.L_O_C) * 2

\* side_full = (W_C + L_O_C) * 2 - corner_left - corner_right
Panel_side_full(self) == (self.W_C + self.L_O_C) * 2 - self.N_PA - self.N_PA

Panel_calc_side_panels(self) ==
    LET corner_left == self.N_PA
        corner_right == self.N_PA
        side_full == Panel_side_full(self)
        w_f_count == IF self.W_F > 0 THEN 1 ELSE 0
        l_f_count == CountPositive(self.L_F)
        side_half == (w_f_count + l_f_count) * 2
        panel_prefix == IF self.use_side_1x1 THEN "SF" ELSE "SL"
        side == PANEL_HEIGHT_CONFIG[Panel_get_height_key(self)].side
        suffix == Suffix(side)
        height_num == side[1]
        \* int(self.H_O * 10)
        height_code == ToString((self.H_O * 10) \div 4)
        multi ==
            When(side_full > 0, Line(panel_prefix \o suffix, side_full, "Panels", "Side Panel (Top)"))
            \o When(corner_left > 0, Line(panel_prefix \o suffix \o "L", corner_left, "Panels", "Corner Side Panel (Top Left)"))
            \o When(corner_right > 0, Line(panel_prefix \o suffix \o "R", corner_right, "Panels", "Corner Side Panel (Top Right)"))
            \o (IF self.H_O >= 16
                THEN <<Line("SF30M", side_full, "Panels", "Side Panel (Mid)")>>
                     \o When(corner_left > 0, Line("SF30ML", corner_left, "Panels", "Corner Side Panel (Mid Left)"))
                     \o When(corner_right > 0, Line("SF30MR", corner_right, "Panels", "Corner Side Panel (Mid Right)"))
                ELSE <<>>)
            \o When(side_full > 0, Line("SF" \o height_code \o "L", side_full, "Panels", "Side Panel (Low)"))
            \o When(corner_left > 0, Line("SF" \o height_code \o "LL", corner_left, "Panels", "Corner Side Panel (Low Left)"))
            \o When(corner_right > 0, Line("SF" \o height_code \o "LR", corner_right, "Panels", "Corner Side Panel (Low Right)"))
        single ==
            When(side_full > 0, Line(panel_prefix \o suffix, side_full, "Panels", "Side Panel"))
            \o When(corner_left > 0, Line(panel_prefix \o suffix \o "L", corner_left, "Panels", "Corner Side Panel (Left)"))
            \o When(corner_right > 0, Line(panel_prefix \o suffix \o "R", corner_right, "Panels", "Corner Side Panel (Right)"))
    IN  (IF self.H_O >= 10 THEN multi ELSE single)
        \o When(side_half > 0, Line("SH" \o height_num \o "M", side_half, "Panels", "Half Side Panel 0.5x1m"))

Panel_calc_partition_panels(self) ==
    IF self.N_PA = 0 THEN <<>>
    ELSE
    LET height_code == ToString((self.H_O * 10) \div 4)
        multi ==
            <<Line("PL20TCB", self.W_C * self.N_PA, "Panels", "Partition Panel (Top)")>>
            \o When(self.H_O >= 16, Line("SN30M", self.W_C * self.N_PA, "Panels", "Partition Panel (Mid)"))
            \o <<Line("PF" \o height_code \o "M", self.W_C * self.N_PA, "Panels", "Partition Panel (Low)")>>
        side == PANEL_HEIGHT_CONFIG[Panel_get_height_key(self)].side
        \* int(W_F * H_C * N_PA), int(W_F * N_PA) with W_F in metres
        part_full == self.W_C * self.H_C * self.N_PA
                     + (IF self.H_F > 0 THEN self.W_C * self.N_PA ELSE 0)
        part_half == (IF self.W_F > 0 THEN Trunc(self.W_F * self.H_C * self.N_PA, 4) ELSE 0)
                     + (IF self.H_F > 0 /\ self.W_F > 0 THEN Trunc(self.W_F * self.N_PA, 4) ELSE 0)
        prefix == IF self.use_partition_1x1 THEN "SF" ELSE "SL"
        single ==
            When(part_full > 0, Line(prefix \o Suffix(side), part_full, "Panels", "Partition Panel"))
            \o When(part_half > 0, Line("SH" \o side[1] \o "M", part_half, "Panels", "Half Partition Panel"))
    IN  IF self.H_O >= 10 THEN multi ELSE single

\* variant: the lines are returned as the methods gave them
Panel_calculate_all_panels_unfiltered(self) ==
    Panel_calc_manhole(self)
    \o Panel_calc_roof_panels(self)
    \o Panel_calc_bottom_panels(self)
    \o Panel_calc_drain_panels(self)
    \o Panel_calc_side_panels(self)
    \o (IF self.N_PA > 0 THEN Panel_calc_partition_panels(self) ELSE <<>>)

Panel_calculate_all_panels(self) ==
    PositiveOnly(
        Panel_calc_manhole(self)
        \o Panel_calc_roof_panels(self)
        \o Panel_calc_bottom_panels(self)
        \o Panel_calc_drain_panels(self)
        \o Panel_calc_side_panels(self)
        \o (IF self.N_PA > 0 THEN Panel_calc_partition_panels(self) ELSE <<>>))

(***************************************************************************)
(* BoltsCalculator (bolts_calculator.py)                                   *)
(***************************************************************************)
\* BOLT_OPTIONS: the material suffixes of an option; "None" is Python's None
BOLT_OPTIONS ==
    [o \in 1..8 |->
        CASE o = 1 -> [external |-> "Z",    internal |-> "SA4",  reinforcing |-> "Z"]
          [] o = 2 -> [external |-> "Z",    internal |-> "SA4",  reinforcing |-> "SA4"]
          [] o = 3 -> [external |-> "SA4",  internal |-> "SA2",  reinforcing |-> "SA4"]
          [] o = 4 -> [external |-> "Z",    internal |-> "SA2",  reinforcing |-> "Z"]
          [] o = 5 -> [external |-> "SA4",  internal |-> "SA4",  reinforcing |-> "SA4"]
          [] o = 6 -> [external |-> "SA2",  internal |-> "SA2",  reinforcing |-> "SA2"]
          [] o = 7 -> [external |-> "None", internal |-> "None", reinforcing |-> "None"]
          [] o = 8 -> [external |-> "None", internal |-> "None", reinforcing |-> "Z"]]

\* BoltsCalculator.__init__: W_O, L_O and H_O are in quarter metres, the
\* "_C" fields in metres, the "_F" fields in quarter metres
BoltsCalculator(width, length1, length2, length3, length4, height, bolt_option, skid_type, insulation_type, steel_skid_m9, steel_skid_m36, ext_reinforcing_l22, ext_reinforcing_l23, ext_reinforcing_l24, int_reinforcing_p18, int_reinforcing_p19) ==
    [bolt_option |-> bolt_option, skid_type |-> skid_type,
     insulation_type |-> insulation_type,
     steel_skid_m9 |-> steel_skid_m9, steel_skid_m36 |-> steel_skid_m36,
     ext_reinforcing_l22 |-> ext_reinforcing_l22,
     ext_reinforcing_l23 |-> ext_reinforcing_l23,
     ext_reinforcing_l24 |-> ext_reinforcing_l24,
     int_reinforcing_p18 |-> int_reinforcing_p18,
     int_reinforcing_p19 |-> int_reinforcing_p19,
     W_O |-> width, W_C |-> IntPart(width), W_F |-> FracPart(width),
     L_O |-> length1 + length2 + length3 + length4,
     sum_L_C |-> IntPart(length1) + IntPart(length2)
                 + IntPart(length3) + IntPart(length4),
     sum_L_F |-> FracPart(length1) + FracPart(length2)
                 + FracPart(length3) + FracPart(length4),
     H_O |-> height,
     N_PA |-> CountPositive(<<length2, length3, length4>>),
     bolt_config |-> IF bolt_option \in DOMAIN BOLT_OPTIONS
                     THEN BOLT_OPTIONS[bolt_option] ELSE BOLT_OPTIONS[1]]

Bolts_calc_wbt_1035_external(self) ==
    LET row9 == (IF self.H_O = 10 THEN 4 ELSE 0) + (IF self.H_O = 12 THEN 4 ELSE 0)
                + (IF self.H_O = 14 THEN 8 ELSE 0) + (IF self.H_O = 16 THEN 8 ELSE 0)
                + (IF self.H_O = 18 THEN 12 ELSE 0) + (IF self.H_O = 20 THEN 12 ELSE 0)
        \* int(H_O * 8 * 2 * 4)
        row10 == Trunc(self.H_O * 8 * 2 * 4, 4)
    IN  row9 + row10

Bolts_calc_wbt_1035_internal(self) ==
    LET \* (4*W_C + 2*W_F) * (sum_L_total - N_PA - 1)
        row5 == Trunc((8 * self.W_C + self.W_F) * (self.L_O - 4 * self.N_PA - 4), 8)
        \* (4*sum_L_C + 2*sum_L_F) * ceil(W_O - 1)
        row6 == Trunc((8 * self.sum_L_C + self.sum_L_F) * Ceil(self.W_O - 4, 4), 2)
    IN  Max(0, row5) + Max(0, row6)

Bolts_calc_wbt_1050_external(self) ==
    LET \* (8*W_C + 4*W_F) * (sum_L_total - 1)
        row12 == Trunc((8 * self.W_C + self.W_F) * (self.L_O - 4), 4)
        \* (8*sum_L_C + 4*sum_L_F) * ceil(W_O - 1)
        row13 == (8 * self.sum_L_C + self.sum_L_F) * Ceil(self.W_O - 4, 4)
        \* H_O * ((W_C+W_F-1) + (L_O_C+L_O_F-1)) * 2 * 8
        row14 == Trunc(self.H_O * ((self.W_O - 4) + (self.L_O - 4)) * 2 * 8, 16)
        \* in sixteenths
        h_factor == self.H_O - 8
        row15a == IF self.H_O > 8
                  THEN 8 * (self.W_C + self.sum_L_C) * 2 * h_factor * 4
                       + (self.H_O - 4) * (self.W_F + self.sum_L_F) * h_factor
                  ELSE 0
        row15b == IF self.insulation_type > 0
                  THEN 8 * (self.W_C + self.sum_L_C) * 2 * 16
                       + (self.W_F + self.sum_L_F) * 16
                  ELSE 0
        row15 == Trunc(row15a + row15b, 16)
        \* ((sum_L_C + W_C)*8 + (sum_L_F + W_F)*4) * 2
        row16 == ((self.sum_L_C + self.W_C) * 8 + (self.sum_L_F + self.W_F)) * 2
    IN  Max(0, row12) + Max(0, row13) + row14 + row15 + row16

Bolts_calc_wbt_1050_internal(self) ==
    LET \* (sum_L_C + W_C)*4*2 + (sum_L_F + W_F)*2*2
        row11 == (self.sum_L_C + self.W_C) * 4 * 2 + (self.sum_L_F + self.W_F)
        \* 4 * (W_C + W_F) * N_PA
        row19 == self.W_O * self.N_PA
        \* in halves: W_O * 8 * (H_C + H_F - 2) * N_PA
        tiers == self.W_O * (self.H_O - 8) * self.N_PA
        row36 == IF self.insulation_type = 2 THEN tiers
                 ELSE ((IF self.H_O = 6 THEN 2 * self.W_F ELSE tiers)
                       + (IF self.H_O \in {8, 12, 16, 20} THEN 4 * self.W_O ELSE 0))
                      * self.N_PA
        \* ((W_C + W_F - 1) * H_O) * 8 * N_PA
        row37 == Trunc((self.W_O - 4) * self.H_O * self.N_PA, 2)
    IN  row11 + (IF self.N_PA > 0
                 THEN row19 + Max(0, Trunc(row36, 2)) + Max(0, row37)
                 ELSE 0)

Bolts_calc_wbt_1240(self) ==
    \* int((W_C + W_F + L_O_C + L_O_F) * 2 * 2)
    Trunc((self.W_O + self.L_O) * 2 * 2, 4)

Bolts_calc_wbt_1440(self) ==
    LET \* (W_C + W_F + 1) * 4
        frame == self.W_O + 4
        row21 == frame + (IF self.H_O > 8 \/ self.skid_type \in {3, 4} THEN frame ELSE 0)
        \* 2 * (sum_L_total - 1) * (W_C + W_F + 1)
        row22 == Trunc(2 * (self.L_O - 4) * (self.W_O + 4), 16)
        row23 == self.steel_skid_m36
        row24 == 2 * self.steel_skid_m9
                 + (IF self.H_O > 10 \/ self.skid_type \in {2, 3}
                    THEN 2 * self.steel_skid_m9 ELSE 0)
    IN  row21 + Max(0, row22) + row23 + row24

\* variant: the bolts of the first partition are left out
Bolts_calc_wbt_1058r_from_second(self) ==
    IF self.N_PA < 2 THEN 0
    ELSE Trunc(self.H_O * 8 * 2 * (self.N_PA - 1), 4) + Trunc(self.W_O * 8 * (self.N_PA - 1), 4)

Bolts_calc_wbt_1058r(self) ==
    IF self.N_PA = 0 THEN 0
    ELSE \* int(H_O * 8 * 2 * N_PA) + int(W_O * 8 * N_PA)
         Trunc(self.H_O * 8 * 2 * self.N_PA, 4) + Trunc(self.W_O * 8 * self.N_PA, 4)

Bolts_calc_wbt_14120r(self) ==
    LET row30 == self.ext_reinforcing_l22 * 2 + self.ext_reinforcing_l23 * 4
                 + self.ext_reinforcing_l24 * 2
        \* H_O > 3.3
        row39 == IF self.H_O * 10 > 33 * 4
                 THEN Trunc(((self.W_O - 4) + self.L_O - 4 * self.N_PA - 4) * 2 * 2, 4)
                 ELSE 0
    IN  row30 + Max(0, row39)

Bolts_calc_wbt_14120r_internal(self) ==
    IF self.N_PA = 0 THEN 0
    ELSE self.int_reinforcing_p18 * 4 * self.N_PA
         + self.int_reinforcing_p19 * 2 * self.N_PA

Bolts_calculate_all_parts(self) ==
    IF self.bolt_option = 7 THEN <<>>
    ELSE
    LET ext_material == self.bolt_config.external
        int_material == self.bolt_config.internal
        has_ext == ext_material # "None"
        has_int == int_material # "None"
        assemble == self.bolt_option # 8
        wbt_1035_ext == Bolts_calc_wbt_1035_external(self)
        wbt_1035_int == Bolts_calc_wbt_1035_internal(self)
        wbt_1050_ext == Bolts_calc_wbt_1050_external(self)
        wbt_1050_int == Bolts_calc_wbt_1050_internal(self)
        wbt_1240_qty == Bolts_calc_wbt_1240(self)
        wbt_1440_qty == Bolts_calc_wbt_1440(self)
        wbt_1058r_qty == Bolts_calc_wbt_1058r(self)
        wbt_14120r_qty == Bolts_calc_wbt_14120r(self)
        wbt_14120r_int == Bolts_calc_wbt_14120r_internal(self)
    IN  PositiveOnly(
          When(assemble /\ wbt_1035_ext > 0 /\ has_ext,
               Line("WBT-1035" \o ext_material, wbt_1035_ext, "Bolts & Nuts",
                    "M10x35mm Bolt (" \o ext_material \o ")"))
          \o When(assemble /\ wbt_1035_int > 0 /\ has_int,
               Line("WBT-1035" \o int_material, wbt_1035_int, "Bolts & Nuts",
                    "M10x35mm Roof Bolt (" \o int_material \o ")"))
          \o When(assemble /\ wbt_1050_ext > 0 /\ has_ext,
               Line("WBT-1050" \o ext_material, wbt_1050_ext, "Bolts & Nuts",
                    "M10x50mm Bolt (" \o ext_material \o ")"))
          \o When(assemble /\ wbt_1050_int > 0 /\ has_int,
               Line("WBT-1050" \o int_material, wbt_1050_int, "Bolts & Nuts",
                    "M10x50mm Roof/Partition Bolt (" \o int_material \o ")"))
          \o When(assemble /\ wbt_1240_qty > 0 /\ has_ext,
               Line("WBT-1240" \o ext_material, wbt_1240_qty, "Bolts & Nuts",
                    "M12x40mm Bolt (" \o ext_material \o ")"))
          \o When(assemble /\ wbt_1440_qty > 0 /\ has_ext,
               Line("WBT-1440" \o ext_material, wbt_1440_qty, "Bolts & Nuts",
                    "M14x40mm Bolt (" \o ext_material \o ")"))
          \o When(self.N_PA > 0 /\ has_int /\ wbt_1058r_qty > 0,
               Line("WBT-1058R" \o int_material, wbt_1058r_qty, "Bolts & Nuts",
                    "M10x58mm Rubber Bolt (" \o int_material \o ")"))
          \o When(wbt_14120r_qty > 0,
               Line("WBT-14120RD", wbt_14120r_qty, "Bolts & Nuts",
                    "M14x120mm Rubber HDG Bolt"))
          \o When(self.N_PA > 0 /\ has_int /\ wbt_14120r_int > 0,
               Line("WBT-14120R" \o int_material, wbt_14120r_int, "Bolts & Nuts",
                    "M14x120mm Rubber Internal Bolt (" \o int_material \o ")")))

(***************************************************************************)
(* SteelSkidCalculator (steel_skid_calculator.py)                          *)
(***************************************************************************)
SKID_TYPE_DEFAULT == 1
SKID_TYPE_75_ANGLE == 2
SKID_TYPE_125_CHANNEL == 3
SKID_TYPE_150_CHANNEL == 4
SKID_TYPE_EXCEPT == 5

\* variant: the default selection takes the 125 channel from 2.5 m on
Skid_resolve_skid_type_inclusive(skid_type, H_O) ==
    IF skid_type = SKID_TYPE_EXCEPT THEN "except"
    ELSE IF skid_type = SKID_TYPE_75_ANGLE THEN "75_angle"
    ELSE IF skid_type = SKID_TYPE_125_CHANNEL THEN "125_channel"
    ELSE IF skid_type = SKID_TYPE_150_CHANNEL THEN "150_channel"
    ELSE IF H_O * 10 > 43 * 4 THEN "150_channel"
    ELSE IF H_O * 10 >= 25 * 4 THEN "125_channel"
    ELSE IF H_O > 0 THEN "75_angle"
    ELSE "except"

Skid_resolve_skid_type(skid_type, H_O) ==
    IF skid_type = SKID_TYPE_EXCEPT THEN "except"
    ELSE IF skid_type = SKID_TYPE_75_ANGLE THEN "75_angle"
    ELSE IF skid_type = SKID_TYPE_125_CHANNEL THEN "125_channel"
    ELSE IF skid_type = SKID_TYPE_150_CHANNEL THEN "150_channel"
    ELSE IF H_O * 10 > 43 * 4 THEN "150_channel"
    ELSE IF H_O * 10 > 25 * 4 THEN "125_channel"
    ELSE IF H_O > 0 THEN "75_angle"
    ELSE "except"

\* SteelSkidCalculator.__init__
SteelSkidCalculator(width, length1, length2, length3, length4, height, skid_type) ==
    [skid_type |-> skid_type,
     W_O |-> width, W_C |-> IntPart(width), W_F |-> FracPart(width),
     L_i_O |-> <<length1, length2, length3, length4>>,
     L_O |-> length1 + length2 + length3 + length4,
     L_O_C |-> IntPart(length1) + IntPart(length2)
               + IntPart(length3) + IntPart(length4),
     L_O_F |-> FracPart(length1) + FracPart(length2)
               + FracPart(length3) + FracPart(length4),
     H_O |-> height,
     N_PA |-> CountPositive(<<length2, length3, length4>>),
     actual_skid_type |-> Skid_resolve_skid_type(skid_type, height)]

Skid_get_type_suffix(self) ==
    CASE self.actual_skid_type = "75_angle" -> "AL"
      [] self.actual_skid_type = "125_channel" -> "CL"
      [] self.actual_skid_type = "150_channel" -> "HCL"
      [] OTHER -> "AL"

Skid_get_short_suffix(self) ==
    CASE self.actual_skid_type = "75_angle" -> "AS"
      [] self.actual_skid_type = "125_channel" -> "CS"
      [] self.actual_skid_type = "150_channel" -> "HCS"
      [] OTHER -> "AS"

Skid_get_connector_parts(self) ==
    CASE self.actual_skid_type = "75_angle" -> <<"WBR-7575Z", "WBR-0240Z">>
      [] self.actual_skid_type = "125_channel" -> <<"WBR-0120Z", "WBR-21590Z">>
      [] self.actual_skid_type = "150_channel" -> <<"WBR-0150Z", "WBR-22310Z">>
      [] OTHER -> <<"WBR-7575Z", "WBR-0240Z">>

\* the summand of one length section, in quarter metres
Skid_frame_990_section(l, first) ==
    IF FracPart(l) > 0 THEN (l - 6) % 8
    ELSE IF first \/ IntPart(l) > 0 THEN (IntPart(l) % 2) * 4
    ELSE 0

Skid_calc_frame_990_qty(self) ==
    LET mod_sum == Skid_frame_990_section(self.L_i_O[1], TRUE)
                   + Skid_frame_990_section(self.L_i_O[2], FALSE)
                   + Skid_frame_990_section(self.L_i_O[3], FALSE)
                   + Skid_frame_990_section(self.L_i_O[4], FALSE)
    IN  \* int(mod_sum * (W_C + W_F + 1))
        Trunc(mod_sum * (self.W_O + 4), 16)

Skid_calc_width_frames(self, short_suffix) ==
    LET w_f_is_half == self.W_F = 2
        \* int(W_O) % 2 and int(W_O - 0.5) % 2
        parity == IF ~w_f_is_half THEN IntPart(self.W_O) % 2
                  ELSE IntPart(self.W_O - 2) % 2
        iseven_qty == (IF self.W_O = 14 THEN 1 ELSE 0)
                      + (IF self.W_O > 14 /\ parity = 0 THEN 2 ELSE 0)
        isodd_qty == (IF self.W_O = 12 THEN 2 ELSE IF self.W_O = 14 THEN 1 ELSE 0)
                     + (IF self.W_O > 14 /\ parity = 1 THEN 2 ELSE 0)
        w_adj == self.W_O - 2
        center_qty ==
            IF ~w_f_is_half
            THEN IF self.W_O > 14
                 THEN IF IntPart(self.W_O) % 2 = 0
                      THEN Trunc(self.W_O - 16, 4) ELSE Trunc(self.W_O - 12, 4)
                 ELSE 0
            ELSE IF self.W_O > 16
                 THEN IF IntPart(w_adj) % 2 = 0
                      THEN Trunc(w_adj - 16, 4) ELSE Trunc(w_adj - 12, 4)
                 ELSE 0
        half_qty == IF self.W_O > 14 /\ w_f_is_half THEN 2 ELSE 0
        small_width_qty == IF self.W_O \in {4, 6, 8, 10} THEN 2 ELSE 0
        side_width == IF self.actual_skid_type = "75_angle" THEN "1570" ELSE "1560"
    IN  IF self.W_O >= 12
        THEN When(isodd_qty > 0,
                  Line("WFF-2000" \o short_suffix \o "Z", isodd_qty, "Steel Skid", "Steel Skid(Main-W)"))
             \o (IF iseven_qty > 0
                 THEN <<Line("WFF-" \o side_width \o short_suffix \o "ZR", iseven_qty, "Steel Skid", "Steel Skid(Main-W)"),
                        Line("WFF-" \o side_width \o short_suffix \o "ZL", iseven_qty, "Steel Skid", "Steel Skid(Main-W)")>>
                 ELSE <<>>)
             \o When(center_qty > 0,
                  Line("WFF-2000" \o short_suffix \o "Z", center_qty, "Steel Skid", "Steel Skid(Main-W) Center"))
             \o When(half_qty > 0,
                  Line("WFF-0500" \o short_suffix \o "Z", half_qty, "Steel Skid", "Steel Skid(Main-W) Half"))
        ELSE When(small_width_qty > 0,
                  Line("WFF-2000" \o short_suffix \o "Z", small_width_qty, "Steel Skid", "Steel Skid(Main-W)"))

\* math.ceil(L1_O) + math.ceil(L2_O) + math.ceil(L3_O) + math.ceil(L4_O)
Skid_total_ceiling_length(self) ==
    Ceil(self.L_i_O[1], 4) + Ceil(self.L_i_O[2], 4)
    + Ceil(self.L_i_O[3], 4) + Ceil(self.L_i_O[4], 4)

\* Python round(x) of x = q quarter metres: halves go to the even integer
RoundHalfEven(q) ==
    IF q % 4 = 2 THEN (IF (q \div 4) % 2 = 0 THEN q \div 4 ELSE q \div 4 + 1)
    ELSE (q + 2) \div 4

Skid_calc_sub_frames(self) ==
    LET length_factor == Skid_total_ceiling_length(self) - 1
        w_is_integer == self.W_F = 0
        main_sub_qty == IF self.W_O >= 14
                        THEN (RoundHalfEven(self.W_O) - 3) * length_factor ELSE 0
        side_sub_qty == IF self.W_O = 6 THEN 1 * length_factor
                        ELSE IF self.W_O = 8 THEN 1 * length_factor
                        ELSE IF self.W_O >= 10 THEN 2 * length_factor
                        ELSE 0
        corner_sub_qty == IF self.W_O >= 12 /\ w_is_integer THEN 1 * length_factor ELSE 0
        half_sub_qty == IF ~w_is_integer /\ self.W_O >= 10 THEN 1 * length_factor ELSE 0
        side_part == IF self.actual_skid_type = "75_angle" THEN "WFF-0957AMZ" ELSE "WFF-0962AMZ"
        corner_part == IF self.actual_skid_type = "75_angle" THEN "WFF-1063AMZ" ELSE "WFF-1053AMZ"
    IN  When(main_sub_qty > 0, Line("WFF-0994AMZ", main_sub_qty, "Steel Skid", "Steel Skid(Sub)"))
        \o When(side_sub_qty > 0, Line(side_part, side_sub_qty, "Steel Skid", "Steel Skid(Sub)"))
        \o When(corner_sub_qty > 0, Line(corner_part, corner_sub_qty, "Steel Skid", "Steel Skid(Sub)"))
        \o When(half_sub_qty > 0, Line("WFF-0500AMZ", half_sub_qty, "Steel Skid", "Steel Skid(Sub) Half"))

\* math.ceil((W_C + W_F + 1) * (total_ceiling_length + 1) * 4.6)
Skid_calc_liner_qty(self) ==
    Ceil((self.W_O + 4) * (Skid_total_ceiling_length(self) + 1) * 46, 40)

\* sum(p['quantity'] for p in parts)
RECURSIVE SumQuantity(_)
SumQuantity(parts) ==
    IF parts = <<>> THEN 0 ELSE Head(parts).quantity + SumQuantity(Tail(parts))

\* the Anchor Bracket block without the branch for tall tanks
Skid_calc_anchor_qty_flat(self) ==
    Trunc(16 + (self.W_O - 8) + (self.L_O - 8), 4)

\* the Anchor Bracket block of calculate_all_parts: the quantity of
\* WBR-5010Z, by the branch H_O > 3
Skid_calc_anchor_qty(self) ==
    IF self.H_O > 12
    THEN Trunc(16 + (self.W_O - 4) * 2 + (self.L_O - 4) * 2, 4)
    ELSE Trunc(16 + (self.W_O - 8) + (self.L_O - 8), 4)

Skid_calculate_all_parts(self) ==
    IF self.actual_skid_type = "except" THEN <<>>
    ELSE
    LET connectors == Skid_get_connector_parts(self)
        type_suffix == Skid_get_type_suffix(self)
        short_suffix == Skid_get_short_suffix(self)
        \* int((W_C + W_F + 1) * 2)
        main_beam_qty == Trunc((self.W_O + 4) * 2, 4)
        \* int((L_O - 1.5) // 2) * int(W + 1)  or  int(L_O_C / 2) * int(W + 1)
        frame_1990_qty == IF self.L_O_F > 0
                          THEN ((self.L_O - 6) \div 8) * IntPart(self.W_O + 4)
                          ELSE (self.L_O_C \div 2) * IntPart(self.W_O + 4)
        frame_990_qty == Skid_calc_frame_990_qty(self)
        width_frames == Skid_calc_width_frames(self, short_suffix)
        sub_frames == Skid_calc_sub_frames(self)
        \* int(((sub_frame_total / 2) - 1) * 2)
        cross_beam_qty == SumQuantity(sub_frames) - 2
        liner_qty == Skid_calc_liner_qty(self)
        anchor_qty == Skid_calc_anchor_qty(self)
    IN  PositiveOnly(
          <<Line(connectors[1], main_beam_qty, "Steel Skid", "Steel Skid Connector")>>
          \o When(frame_1990_qty > 0,
                  Line("WFF-1990" \o type_suffix \o "Z", frame_1990_qty, "Steel Skid", "Steel Skid(Main-L)"))
          \o When(frame_990_qty > 0,
                  Line("WFF-0990" \o type_suffix \o "Z", frame_990_qty, "Steel Skid", "Steel Skid(Main-L)"))
          \o width_frames
          \o sub_frames
          \o When(cross_beam_qty > 0,
                  Line(connectors[2], cross_beam_qty, "Steel Skid", "Steel Skid Connector"))
          \o When(liner_qty > 0, Line("LNR-3.0T", liner_qty, "Steel Skid", "Liner"))
          \o When(anchor_qty > 0,
                  Line("WBR-5010Z", anchor_qty, "Steel Skid", "Anchor Bracket with bolt and nut set")))

(***************************************************************************)
(* FittingsCalculator (fittings_calculator.py).  A fitting code typed by   *)
(* the user is a sequence of one-character strings, so that the slices     *)
(* part_no[1:3] and part_no[4:7] of the engine can be taken.               *)
(***************************************************************************)
FITTING_TYPES ==
    ("SF" :> [prefix |-> "WSF", description |-> "Slant Flange",
              sizes |-> {65, 80, 100, 125, 150}])
    @@ ("FL" :> [prefix |-> "WFL", description |-> "Flat Flange",
                 sizes |-> {65, 80, 100, 125, 150, 200}])
    @@ ("SD" :> [prefix |-> "WSD", description |-> "Suction/Drain",
                 sizes |-> {50, 65, 80, 100, 125, 150}])
    @@ ("OF" :> [prefix |-> "WOF", description |-> "Overflow",
                 sizes |-> {50, 65, 80, 100, 125, 150}])
    @@ ("SB" :> [prefix |-> "WSB", description |-> "Socket Brass",
                 sizes |-> {20, 25, 40, 50}])
    @@ ("IN" :> [prefix |-> "WIN", description |-> "Inlet",
                 sizes |-> {50, 65, 80, 100, 125, 150}])
    @@ ("OUT" :> [prefix |-> "WOT", description |-> "Outlet",
                  sizes |-> {50, 65, 80, 100, 125, 150}])

\* Python s[a:b] on a sequence of characters (0-based, end exclusive)
Slice(s, a, b) ==
    LET hi == IF b < Len(s) THEN b ELSE Len(s)
    IN  IF a >= hi THEN <<>> ELSE [i \in 1..(hi - a) |-> s[a + i]]

\* A str that comes with the request (fitting_type and the slices taken of
\* it) is the sequence of its code points, as Python holds it: s[i] and
\* s[a:b] count code points, and int() reads digits and white space of every
\* script.  The strs the program writes itself (keys, part numbers,
\* descriptions) are strings.  The printable ASCII characters from the
\* blank (32) to _ (95):
AsciiUpper ==
    <<" ", "!", "\"", "#", "$", "%", "&", "'", "(", ")", "*", "+", ",", "-", ".", "/", "0",
      "1", "2", "3", "4", "5", "6", "7", "8", "9", ":", ";", "<", "=", ">", "?", "@", "A", "B",
      "C", "D", "E", "F", "G", "H", "I", "J", "K", "L", "M", "N", "O", "P", "Q", "R", "S", "T",
      "U", "V", "W", "X", "Y", "Z", "[", "\\", "]", "^", "_">>

\* and from a (97) to ~ (126); a string here cannot hold the grave accent (96)
AsciiLower ==
    <<"a", "b", "c", "d", "e", "f", "g", "h", "i", "j", "k", "l", "m", "n", "o", "p", "q", "r",
      "s", "t", "u", "v", "w", "x", "y", "z", "{", "|", "}", "~">>

\* ord(c) of a printable ASCII character
Ord(c) ==
    IF \E i \in DOMAIN AsciiUpper : AsciiUpper[i] = c
    THEN 31 + CHOOSE i \in DOMAIN AsciiUpper : AsciiUpper[i] = c
    ELSE 96 + CHOOSE i \in DOMAIN AsciiLower : AsciiLower[i] = c

\* chr(code); a code point outside these tables is written as an escape,
\* which no key of FITTING_TYPES and no part number holds
Chr(code) ==
    IF code \in 32..95 THEN AsciiUpper[code - 31]
    ELSE IF code \in 97..126 THEN AsciiLower[code - 96]
    ELSE "\\u" \o ToString(code)

\* the str spelled by ASCII characters
Text(chars) == [i \in DOMAIN chars |-> Ord(chars[i])]

\* the text of a str, to compare it with a key or a part number
RECURSIVE Join(_)
Join(codes) == IF codes = <<>> THEN "" ELSE Chr(Head(codes)) \o Join(Tail(codes))

\* the code points of the digit zero of every script with decimal digits
\* (general category Nd of Unicode 14.0.0, which CPython 3.11 carries); the
\* digits one to nine of a script follow its zero
DigitZeros ==
    {48, 1632, 1776, 1984, 2406, 2534, 2662, 2790, 2918, 3046, 3174, 3302, 3430, 3558, 3664,
     3792, 3872, 4160, 4240, 6112, 6160, 6470, 6608, 6784, 6800, 6992, 7088, 7232, 7248, 42528,
     43216, 43264, 43472, 43504, 43600, 44016, 65296, 66720, 68912, 69734, 69872, 69942, 70096,
     70384, 70736, 70864, 71248, 71360, 71472, 71904, 72016, 72784, 73040, 73120, 92768, 92864,
     93008, 120782, 120792, 120802, 120812, 120822, 123200, 123632, 125264, 130032}

Digits == UNION {z..(z + 9) : z \in DigitZeros}

\* Py_UNICODE_TODECIMAL
DigitValue(c) == c - (CHOOSE z \in DigitZeros : c \in z..(z + 9))

RECURSIVE DecimalValue(_)
DecimalValue(chars) ==
    IF chars = <<>> THEN 0
    ELSE 10 * DecimalValue(SubSeq(chars, 1, Len(chars) - 1)) + DigitValue(chars[Len(chars)])

\* the code points int() drops at both ends of its text: \t \n \v \f \r and
\* the blank of C's isspace(), and the white space beyond ASCII, which int()
\* turns into blanks first: U+0085, U+00A0, U+1680, U+2000 to U+200A, U+2028,
\* U+2029, U+202F, U+205F and U+3000.  The separators 0x1C to 0x1F, white
\* space to str.isspace(), are not dropped: int() raises ValueError on them.
Whitespace ==
    (9..13) \cup {32, 133, 160, 5760} \cup (8192..8202) \cup {8232, 8233, 8239, 8287, 12288}

\* the text int() reads: its argument less the white space at both ends
RECURSIVE Strip(_)
Strip(chars) ==
    IF chars = <<>> THEN chars
    ELSE IF Head(chars) \in Whitespace THEN Strip(Tail(chars))
    ELSE IF chars[Len(chars)] \in Whitespace THEN Strip(SubSeq(chars, 1, Len(chars) - 1))
    ELSE chars

\* whether chars are decimal digits with single underscores between them,
\* as int() takes them
DigitGroups(chars) ==
    /\ chars # <<>>
    /\ chars[1] \in Digits
    /\ chars[Len(chars)] \in Digits
    /\ \A i \in DOMAIN chars : chars[i] \in Digits \cup {Ord("_")}
    /\ \A i \in 1..(Len(chars) - 1) : ~(chars[i] = Ord("_") /\ chars[i + 1] = Ord("_"))

\* int(text): white space around the number is dropped, a sign may lead,
\* the digits may be of any script and single underscores may part them; ok
\* is FALSE where int raises ValueError
ParseInt(chars) ==
    LET text == Strip(chars)
        signed == text # <<>> /\ text[1] \in {Ord("+"), Ord("-")}
        body == IF signed THEN Tail(text) ELSE text
        value == DecimalValue(SelectSeq(body, LAMBDA c : c \in Digits))
    IN  IF DigitGroups(body)
        THEN [ok |-> TRUE, value |-> IF signed /\ text[1] = Ord("-") THEN -value ELSE value]
        ELSE [ok |-> FALSE, value |-> 0]

\* f"{size:03d}": zero-padded to three characters, the sign included
Pad3(size) ==
    IF size >= 0
    THEN IF size < 10 THEN "00" \o ToString(size)
         ELSE IF size < 100 THEN "0" \o ToString(size)
         ELSE ToString(size)
    ELSE IF -size < 10 THEN "-0" \o ToString(-size)
         ELSE "-" \o ToString(-size)

\* self.FITTING_TYPES.get(fitting_type, self.FITTING_TYPES["SD"]), the str
\* fitting_type given as its code points
Fittings_type_info(fitting_type) ==
    IF Join(fitting_type) \in DOMAIN FITTING_TYPES
    THEN FITTING_TYPES[Join(fitting_type)] ELSE FITTING_TYPES["SD"]

Fittings_get_part_number(fitting_type, size) ==
    Fittings_type_info(fitting_type).prefix \o "-" \o Pad3(size) \o "A"

Fittings_get_description(fitting_type, size) ==
    Fittings_type_info(fitting_type).description \o " " \o ToString(size) \o "mm"

\* the dict fitting_counts after one more fitting, in insertion order
Fittings_count(counts, fitting) ==
    LET part_no == Fittings_get_part_number(fitting.type, fitting.size)
        at == {i \in DOMAIN counts : counts[i].part_no = part_no}
    IN  IF fitting.quantity <= 0 THEN counts
        ELSE IF at # {}
        THEN [i \in DOMAIN counts |->
                 IF i \in at
                 THEN [counts[i] EXCEPT !.quantity = @ + fitting.quantity]
                 ELSE counts[i]]
        ELSE Append(counts, Line(part_no, fitting.quantity, "Fittings",
                                 Fittings_get_description(fitting.type, fitting.size)))

RECURSIVE Fittings_counts(_, _)
Fittings_counts(counts, fittings_config) ==
    IF fittings_config = <<>> THEN counts
    ELSE Fittings_counts(Fittings_count(counts, Head(fittings_config)),
                         Tail(fittings_config))

\* the part numbers of get_available_fittings
Fittings_get_available_fittings ==
    UNION {{FITTING_TYPES[t].prefix \o "-" \o Pad3(size) \o "A" : size \in FITTING_TYPES[t].sizes} :
              t \in DOMAIN FITTING_TYPES}

Fittings_calculate_all_parts(fittings_config) ==
    PositiveOnly(Fittings_counts(<<>>, fittings_config))

(***************************************************************************)
(* ReinforcingCalculator (reinforcing_calculator.py).  Quantities are kept *)
(* in quarters until int() is taken.                                       *)
(***************************************************************************)
MATERIAL_SS316 == 2
MATERIAL_SS304 == 4

\* ReinforcingCalculator.__init__
ReinforcingCalculator(width, length1, length2, length3, length4, height, internal_material, use_side_1x1, insulation) ==
    [internal_material |-> internal_material,
     use_side_1x1 |-> use_side_1x1, insulation |-> insulation,
     W_O |-> width, W_C |-> IntPart(width), W_F |-> FracPart(width),
     L_O |-> length1 + length2 + length3 + length4,
     sum_L_C |-> IntPart(length1) + IntPart(length2)
                 + IntPart(length3) + IntPart(length4),
     H_O |-> height, H_C |-> IntPart(height), H_F |-> FracPart(height),
     N_PA |-> CountPositive(<<length2, length3, length4>>),
     material_suffix |-> IF internal_material = MATERIAL_SS316 THEN "SA2" ELSE "SA4",
     \* W_C+W_F-1+L_O_C+L_O_F-1-N_PA, in quarters
     perimeter |-> (width - 4) + (length1 + length2 + length3 + length4 - 4)
                   - 4 * CountPositive(<<length2, length3, length4>>)]

\* "if wanted > 0: parts.append({..., 'quantity': int(wanted)})", wanted in
\* units of 1/d
Reinf_line(wanted, d, part_no, category, description) ==
    When(wanted > 0, Line(part_no, Trunc(wanted, d), category, description))

\* ((W_C + W_F - 1) + (sum_L_C + sum_L_F - 1)), in quarters
Reinf_open_perimeter(self) == (self.W_O - 4) + (self.L_O - 4)

\* (W_C + W_F - 1) * N_PA, in quarters
Reinf_partition_span(self) == (self.W_O - 4) * self.N_PA

\* the multiplier of the "H_O in [2.5, 3] / [3.5, 4] / [4.5, 5]" ladders
Reinf_tiers(self) ==
    (IF self.H_O \in {10, 12} THEN 1 ELSE 0)
    + (IF self.H_O \in {14, 16} THEN 2 ELSE 0)
    + (IF self.H_O \in {18, 20} THEN 3 ELSE 0)

Reinf_calc_wbr_9090(self) ==
    (IF self.H_O = 10 THEN 4 ELSE 0) + (IF self.H_O = 12 THEN 4 ELSE 0)
    + (IF self.H_O = 14 THEN 8 ELSE 0) + (IF self.H_O = 16 THEN 8 ELSE 0)
    + (IF self.H_O = 18 THEN 8 ELSE 0) + (IF self.H_O = 20 THEN 12 ELSE 0)

\* Row 18: WCF-1000Z, R18 = IF(H_O=1,4,0)+IF(H_O=2.5,4,0)+IF(H_O=3,4,0)
Reinf_wcf_1000z(self) ==
    (IF self.H_O = 4 THEN 4 ELSE 0) + (IF self.H_O = 10 THEN 4 ELSE 0)
    + (IF self.H_O = 12 THEN 4 ELSE 0)

\* variant: 4.5 m takes eight 1500 mm frames
Reinf_wcf_1500z_eight(self) ==
    (IF self.H_O = 6 THEN 4 ELSE 0) + (IF self.H_O = 14 THEN 4 ELSE 0)
    + (IF self.H_O = 10 THEN 4 ELSE 0) + (IF self.H_O = 18 THEN 8 ELSE 0)
    + (IF self.H_O = 20 THEN 8 ELSE 0)

\* Row 19: WCF-1500Z
Reinf_wcf_1500z(self) ==
    (IF self.H_O = 6 THEN 4 ELSE 0) + (IF self.H_O = 14 THEN 4 ELSE 0)
    + (IF self.H_O = 10 THEN 4 ELSE 0) + (IF self.H_O = 18 THEN 12 ELSE 0)
    + (IF self.H_O = 20 THEN 8 ELSE 0)

\* variant: Row 20 without the term of 3 m
Reinf_wcf_2000z_without_3m(self) ==
    (IF self.H_O = 8 THEN 4 ELSE 0) + (IF self.H_O = 14 THEN 4 ELSE 0)
    + (IF self.H_O = 16 THEN 8 ELSE 0) + (IF self.H_O = 20 THEN 4 ELSE 0)

\* Row 20: WCF-2000Z
Reinf_wcf_2000z(self) ==
    (IF self.H_O = 8 THEN 4 ELSE 0) + (IF self.H_O = 14 THEN 4 ELSE 0)
    + (IF self.H_O = 16 THEN 8 ELSE 0) + (IF self.H_O = 20 THEN 4 ELSE 0)
    + (IF self.H_O = 12 THEN 4 ELSE 0)

Reinf_calc_external_reinforcing(self) ==
    LET girth == (self.W_C + self.sum_L_C) * 2
        \* H_O > 1.3 and H_O > 4.3
        p12 == (IF self.H_O * 10 > 13 * 4 THEN girth ELSE 0)
               + (IF self.H_O * 10 > 43 * 4 THEN girth ELSE 0)
        q12 == IF self.H_O \in {14, 16, 18, 20} THEN girth ELSE 0
        r12 == (IF self.H_O \in {12, 14} THEN 4 * 2 ELSE 0)
               + (IF self.H_O \in {16, 18} THEN 4 * 2 * 2 ELSE 0)
               + (IF self.H_O = 20 THEN 4 * 3 * 2 ELSE 0)
        u12 == IF self.H_O \in {12, 14, 16, 18, 20}
               THEN Reinf_open_perimeter(self) * 2 ELSE 0
        x12 == IF self.H_O > 4 THEN self.W_C * self.N_PA ELSE 0
        wfb_0950zp == 4 * (p12 + q12 + r12 + x12) + u12
        q13 == girth * Reinf_tiers(self)
        u13 == Reinf_open_perimeter(self) * 2 * Reinf_tiers(self)
        wfb_0950z == 4 * q13 + u13
        u15 == IF self.insulation THEN 0
               ELSE (IF self.H_O \in {6, 10} THEN Reinf_open_perimeter(self) * 2 ELSE 0)
                    + (IF self.H_O \in {8, 12} THEN Reinf_open_perimeter(self) * 2 ELSE 0)
                    + (IF self.H_O \in {14, 16} THEN Reinf_open_perimeter(self) * 2 * 2 ELSE 0)
                    + (IF self.H_O \in {18, 20} THEN Reinf_open_perimeter(self) * 2 * 3 ELSE 0)
        r18 == Reinf_wcf_1000z(self)
        r19 == Reinf_wcf_1500z(self)
        r20 == Reinf_wcf_2000z(self)
        \* H_O > 3.3
        p22 == IF self.H_O * 10 > 33 * 4 THEN self.perimeter * 2 ELSE 0
        r22 == Reinf_calc_wbr_9090(self) * 2
        u22 == self.perimeter * 2
               * ((IF self.H_O \in {6, 8} THEN 1 ELSE 0) + Reinf_tiers(self))
        v22 == self.N_PA * 2 * Reinf_tiers(self)
        wcp_1780z == p22 + 4 * r22 + u22 + 4 * v22
        wcp_1616z == self.perimeter * 2 * Reinf_tiers(self)
        wfb_0880zp == IF self.N_PA > 0 /\ self.H_O \in {8, 10, 12, 14, 16, 18, 20}
                      THEN self.N_PA * 2 ELSE 0
    IN  Reinf_line(wfb_0950zp, 4, "WFB-0950ZP", "External Reinforcing", "F/L Reinforcing plate")
        \o Reinf_line(wfb_0950z, 4, "WFB-0950Z", "External Reinforcing", "F/L Reinforcing Angle")
        \o Reinf_line(u15, 4, "WFB-1200Z", "External Reinforcing", "F/L Reinforcing Angle 1200")
        \o Reinf_line(r18, 1, "WCF-1000Z", "External Reinforcing", "Corner Frame 1000mm")
        \o Reinf_line(r19, 1, "WCF-1500Z", "External Reinforcing", "Corner Frame 1500mm")
        \o Reinf_line(r20, 1, "WCF-2000Z", "External Reinforcing", "Corner Frame 2000mm")
        \o Reinf_line(wcp_1780z, 4, "WCP-1780Z", "External Reinforcing", "Cross Plate BKT(2 Hole)")
        \o Reinf_line(wcp_1616z, 4, "WCP-1616Z", "External Reinforcing", "Cross Plate BKT(4 Hole)")
        \o Reinf_line(wfb_0880zp, 1, "WFB-0880ZP", "External Reinforcing", "F/L Reinforcing plate Partition")

Reinf_calc_internal_reinforcing(self) ==
    \* H_O < 1.5
    IF self.H_O < 6 THEN <<>>
    ELSE
    LET span == Reinf_partition_span(self)
        parted == self.N_PA > 0
        sfx == self.material_suffix
        wfb_1200 == IF ~self.insulation /\ parted
                       /\ self.H_O \in {6, 8, 10, 12, 14, 16, 18, 20}
                    THEN span ELSE 0
        wfb_0880 == IF parted
                    THEN (IF self.insulation /\ self.H_O > 6 THEN span ELSE 0)
                         + (IF ~self.insulation /\ self.H_O > 8 THEN span ELSE 0)
                    ELSE 0
        wfb_0880p == IF parted /\ self.H_O > 10 THEN span ELSE 0
        wfb_0950 == IF ~parted THEN 0
                    ELSE IF ~self.insulation
                    THEN (IF self.H_O \in {14, 16} THEN span ELSE 0)
                         + (IF self.H_O \in {18, 20} THEN span * 2 ELSE 0)
                    ELSE (IF self.H_O \in {12, 14} THEN span ELSE 0)
                         + (IF self.H_O \in {16, 18} THEN span * 2 ELSE 0)
        wfb_0950p == IF parted /\ self.insulation
                     THEN (IF self.H_O = 16 THEN span ELSE 0)
                          + (IF self.H_O \in {18, 20} THEN span * 2 ELSE 0)
                     ELSE 0
        wfb_0450 == IF parted /\ self.insulation /\ self.H_O \in {10, 14, 18}
                    THEN span ELSE 0
        \* (W_C + W_F - 1) * N_PA * (H_C + H_F - 2), in sixteenths
        wcp_1616 == IF parted /\ self.H_O \in {12, 14, 16, 18, 20}
                    THEN span * (self.H_O - 8) ELSE 0
        wcp_1780 == IF parted /\ self.H_O > 4 THEN span ELSE 0
        bracket == self.perimeter * 2 + 2 * span
        wcp_17160 == IF self.H_O = 12 THEN bracket
                     ELSE IF self.H_O \in {14, 16} THEN bracket * 2
                     ELSE IF self.H_O \in {18, 20} THEN bracket * 3
                     ELSE 0
        perimeter_2 == self.perimeter * 2
        partition_base == span * 2
        wcp_1760 == IF self.H_O > 4
                    THEN perimeter_2 + partition_base
                         + (IF self.H_O \in {10, 14, 18}
                            THEN perimeter_2 + partition_base ELSE 0)
                         + 4 * self.N_PA * 2 * Reinf_tiers(self)
                    ELSE 0
        wbr_9090 == Reinf_calc_wbr_9090(self)
        \* H_O > 3
        wbr_1010 == IF self.H_O > 12 THEN self.perimeter * 2 ELSE 0
    IN  Reinf_line(wfb_1200, 4, "WFB-1200" \o sfx, "Internal Reinforcing", "F/L Reinforcing Angle")
        \o Reinf_line(wfb_0880, 4, "WFB-0880" \o sfx, "Internal Reinforcing", "F/L Reinforcing Angle")
        \o Reinf_line(wfb_0880p, 4, "WFB-0880P" \o sfx, "Internal Reinforcing", "F/L Reinforcing Plate")
        \o Reinf_line(wfb_0950, 4, "WFB-0950" \o sfx, "Internal Reinforcing", "F/L Reinforcing Angle")
        \o Reinf_line(wfb_0950p, 4, "WFB-0950P" \o sfx, "Internal Reinforcing", "F/L Reinforcing Plate")
        \o Reinf_line(wfb_0450, 4, "WFB-0450" \o sfx, "Internal Reinforcing", "F/L Reinforcing Angle")
        \o Reinf_line(wcp_1616, 16, "WCP-1616" \o sfx, "Internal Reinforcing", "Cross Plate(4 Hole) Partition")
        \o Reinf_line(wcp_1780, 4, "WCP-1780" \o sfx, "Internal Reinforcing", "Cross Plate(2 Hole) Partition")
        \o Reinf_line(wcp_17160, 4, "WCP-17160" \o sfx, "Internal Reinforcing", "IN-BRKT (2 tierod)")
        \o Reinf_line(wcp_1760, 4, "WCP-1760" \o sfx, "Internal Reinforcing", "IN-BRKT (1 tierod)")
        \o Reinf_line(wbr_9090, 1, "WBR-9090" \o sfx, "Internal Reinforcing", "Corner BRKT")
        \o Reinf_line(wbr_1010, 4, "WBR-1010" \o sfx, "Internal Reinforcing", "Corner BRKT")

Reinf_calculate_all_parts(self) ==
    PositiveOnly(Reinf_calc_external_reinforcing(self)
                 \o Reinf_calc_internal_reinforcing(self))

(***************************************************************************)
(* TieRodCalculator (tie_rod_calculator.py)                                *)
(***************************************************************************)
SPEC_M12 == 1
SPEC_M16 == 2

\* TieRodCalculator.__init__: the material suffix is "SA4" whatever the
\* material
TieRodCalculator(width, length1, length2, length3, length4, height, tie_rod_material, tie_rod_spec) ==
    [tie_rod_material |-> tie_rod_material, tie_rod_spec |-> tie_rod_spec,
     length |-> <<length1, length2, length3, length4>>,
     L_C |-> <<IntPart(length1), IntPart(length2), IntPart(length3), IntPart(length4)>>,
     L_O_C |-> IntPart(length1) + IntPart(length2) + IntPart(length3) + IntPart(length4),
     W_O |-> width, H_O |-> height, H_C |-> IntPart(height),
     N_PA |-> CountPositive(<<length2, length3, length4>>),
     material_suffix |-> "SA4",
     spec_prefix |-> IF tie_rod_spec = SPEC_M12 THEN "12M" ELSE "16M"]

\* the "Height tiers" ladder repeated in four methods
TieRod_height_tiers(self) ==
    IF self.H_O <= 8 THEN 1
    ELSE IF self.H_O <= 10 THEN 2
    ELSE 2 * self.H_C - 3

TieRod_standard_lengths ==
    <<1880, 2280, 2380, 2780, 2880, 3280, 3380, 3780, 3880,
      4000, 4280, 4380, 4780, 4880, 5000>>

\* min(standard_lengths, key=lambda x: abs(x - base_length))
TieRod_get_standard_length(base_length) ==
    LET d(i) == Abs(TieRod_standard_lengths[i] - base_length)
        best == CHOOSE i \in DOMAIN TieRod_standard_lengths :
                    /\ \A j \in DOMAIN TieRod_standard_lengths : d(i) <= d(j)
                    /\ \A j \in DOMAIN TieRod_standard_lengths : d(j) = d(i) => i <= j
    IN  TieRod_standard_lengths[best]

\* int((x - 0.12) * 1000) for x in quarter metres
TieRod_base_length(x) ==
    FTrunc(FMul(1000, FAdd([c |-> 400 * x, e |-> 0], FNeg(FConst(12)))))

TieRod_calc_tie_rod_quantity(self) ==
    IF self.H_O < 8 THEN 0
    ELSE LET length_positions == Max(0, self.L_O_C - 1)
             rods_per_position == 2
             height_tiers == TieRod_height_tiers(self)
         IN  length_positions * rods_per_position * height_tiers
             + (IF self.N_PA > 0
                THEN self.N_PA * rods_per_position * height_tiers ELSE 0)

\* int(N_PA * height_tiers * (4.565 * height_tiers - 8.525))
TieRod_partition_extra(self) ==
    LET height_tiers == TieRod_height_tiers(self)
    IN  Trunc(self.N_PA * height_tiers * (4565 * height_tiers - 8525), 1000)

TieRod_all_compartments_large(self) ==
    /\ self.length[1] >= 20
    /\ \A i \in 2..4 : self.length[i] = 0 \/ self.length[i] >= 20

\* the configs dict, kept in insertion order: "if part in configs:
\* configs[part]['quantity'] += qty else: configs[part] = {...}"
TieRod_put(configs, length, quantity) ==
    IF \E i \in DOMAIN configs : configs[i].length = length
    THEN [i \in DOMAIN configs |->
            IF configs[i].length = length
            THEN [configs[i] EXCEPT !.quantity = @ + quantity]
            ELSE configs[i]]
    ELSE Append(configs, [length |-> length, quantity |-> quantity])

\* small_rod_configs: the positions of the compartments after the first,
\* grouped by rod length
RECURSIVE TieRod_small_rod_configs(_, _, _)
TieRod_small_rod_configs(self, i, acc) ==
    IF i > 4 THEN acc
    ELSE IF self.length[i] > 0
    THEN TieRod_small_rod_configs(self, i + 1,
             TieRod_put(acc,
                 TieRod_get_standard_length(TieRod_base_length(self.length[i])),
                 Max(0, self.L_C[i] - 1)))
    ELSE TieRod_small_rod_configs(self, i + 1, acc)

\* the loop over small_rod_configs.items()
RECURSIVE TieRod_add_small(_, _, _)
TieRod_add_small(self, small, configs) ==
    IF small = <<>> THEN configs
    ELSE LET height_tiers == TieRod_height_tiers(self)
             base_qty == Head(small).quantity * height_tiers * 3
             partition_wall_extra ==
                 IF self.N_PA > 0 THEN self.N_PA * height_tiers - 1 ELSE 0
             total_qty == base_qty + partition_wall_extra
         IN  TieRod_add_small(self, Tail(small),
                 IF total_qty > 0
                 THEN TieRod_put(configs, Head(small).length, total_qty)
                 ELSE configs)

TieRod_calc_partitioned_tie_rods(self) ==
    LET height_tiers == TieRod_height_tiers(self)
        wide ==
            LET tr_4000_qty == (self.L_O_C - 1) * height_tiers * 2
                               + TieRod_partition_extra(self)
                main == <<[length |-> 4000, quantity |-> tr_4000_qty]>>
            IN  IF TieRod_all_compartments_large(self) /\ self.N_PA > 0
                THEN main
                     \o <<[length |-> 2880,
                           quantity |-> (self.N_PA + 1) * 3 * height_tiers],
                          [length |-> 1880,
                           quantity |-> (self.L_O_C - 1) * height_tiers
                                        + self.N_PA * 2]>>
                ELSE LET l1_positions == Max(0, self.L_C[1] - 1)
                         l1_rod_length == TieRod_get_standard_length(
                                              TieRod_base_length(self.length[1]))
                         l1_qty == l1_positions * height_tiers * 3
                         first == IF l1_qty > 0 /\ l1_rod_length # 4880
                                  THEN TieRod_put(main, l1_rod_length, l1_qty)
                                  ELSE main
                     IN  TieRod_add_small(self,
                             TieRod_small_rod_configs(self, 2, <<>>), first)
        narrow ==
            <<[length |-> TieRod_get_standard_length(TieRod_base_length(self.W_O)),
               quantity |-> TieRod_calc_tie_rod_quantity(self)]>>
        configs == IF self.W_O > 20 THEN wide ELSE narrow
    IN  SelectSeq(configs, LAMBDA c : c.quantity > 0)

TieRod_calc_tie_rod_configs(self) ==
    IF self.N_PA = 0 /\ self.W_O <= 20
    THEN <<[length |-> TieRod_get_standard_length(TieRod_base_length(self.W_O)),
            quantity |-> TieRod_calc_tie_rod_quantity(self)]>>
    ELSE TieRod_calc_partitioned_tie_rods(self)

TieRod_calc_tie_rod_connectors(self) ==
    IF self.W_O <= 20 THEN <<>>
    ELSE LET height_tiers == TieRod_height_tiers(self)
             base_qty == (self.L_O_C - 1) * height_tiers * 2
             partition_extra == IF self.N_PA > 0 THEN TieRod_partition_extra(self) ELSE 0
             connector_qty == base_qty + partition_extra
         IN  When(connector_qty > 0,
                  Line("TC-" \o self.spec_prefix \o "60" \o self.material_suffix,
                       connector_qty, "Tie Rods", "Tie Rod Connector"))

TieRod_config_line(self, config) ==
    Line("TR-" \o self.spec_prefix \o ToString(config.length) \o self.material_suffix,
         config.quantity, "Tie Rods",
         "Tie Rod " \o ToString(config.length) \o "mm")

TieRod_calculate_all_parts(self) ==
    LET configs == SelectSeq(TieRod_calc_tie_rod_configs(self),
                             LAMBDA c : c.quantity > 0)
    IN  [i \in DOMAIN configs |-> TieRod_config_line(self, configs[i])]
        \o TieRod_calc_tie_rod_connectors(self)

\* the number of assemblies get_tie_rod_accessories counts
TieRod_assemblies(self) ==
    IF self.N_PA > 0 /\ self.W_O > 20
    THEN LET height_tiers == TieRod_height_tiers(self)
         IN  IF TieRod_all_compartments_large(self)
             \* int((L_O_C - 1) * height_tiers + N_PA * height_tiers * 4.9)
             THEN Trunc(10 * (self.L_O_C - 1) * height_tiers
                        + 49 * self.N_PA * height_tiers, 10)
             ELSE (self.L_O_C - 1) * height_tiers * 2 + self.N_PA * 4
    ELSE TieRod_calc_tie_rod_quantity(self)

\* variant: two nuts for each assembly
TieRod_nut_quantity_halved(tie_rod_qty) == tie_rod_qty * 2

\* "quantity": tie_rod_qty * 4 of the nut line
TieRod_nut_quantity(tie_rod_qty) == tie_rod_qty * 4

\* "quantity": tie_rod_qty * 4 of the washer line
TieRod_washer_quantity(tie_rod_qty) == tie_rod_qty * 4

TieRod_get_tie_rod_accessories(self) ==
    LET tie_rod_qty == TieRod_assemblies(self)
        spec == IF self.tie_rod_spec = SPEC_M12 THEN "12" ELSE "16"
    IN  IF tie_rod_qty = 0 THEN <<>>
        ELSE <<Line("NUT(" \o self.material_suffix \o ")",
                    TieRod_nut_quantity(tie_rod_qty), "Internal Tie-rod",
                    "T/Rod Nut M" \o spec),
               Line("BW(" \o self.material_suffix \o ")",
                    TieRod_washer_quantity(tie_rod_qty), "Internal Tie-rod",
                    "T/Rod Washer M" \o spec)>>

(***************************************************************************)
(* ETCCalculator (etc_calculator.py).  nominal_capacity is in 1/64 m3.     *)
(***************************************************************************)
LEVEL_INDICATOR_GLASS == 1
LEVEL_INDICATOR_SENSOR == 2
LEVEL_INDICATOR_NONE == 0
LADDER_INTERNAL_SS == 1
LADDER_INTERNAL_FRP == 2
LADDER_EXTERNAL_HDG == 1
LADDER_EXTERNAL_SS == 2

\* TAPE_PER_REINFORCING, in hundredths of a metre
TAPE_PER_REINFORCING ==
    ("WCP-17160SA4" :> 102) @@ ("WCP-1760SA4" :> 30) @@ ("WBR-9090SA4" :> 54)

\* ETCCalculator.__init__
ETCCalculator(width, length1, length2, length3, length4, height, nominal_capacity, level_indicator_type, internal_ladder_material, external_ladder_material, panel_data, reinforcing_data) ==
    [width |-> width, height |-> height,
     nominal_capacity |-> nominal_capacity,
     level_indicator_type |-> level_indicator_type,
     internal_ladder_material |-> internal_ladder_material,
     external_ladder_material |-> external_ladder_material,
     panel_data |-> panel_data, reinforcing_data |-> reinforcing_data,
     W_C |-> IntPart(width), W_F |-> FracPart(width),
     L_C |-> <<IntPart(length1), IntPart(length2), IntPart(length3), IntPart(length4)>>,
     L_F |-> <<FracPart(length1), FracPart(length2), FracPart(length3), FracPart(length4)>>,
     L_N |-> <<length1, length2, length3, length4>>,
     L_O |-> length1 + length2 + length3 + length4,
     L_O_C |-> IntPart(length1) + IntPart(length2) + IntPart(length3) + IntPart(length4),
     L_O_F |-> FracPart(length1) + FracPart(length2) + FracPart(length3) + FracPart(length4),
     W_O |-> width, H_O |-> height, H_C |-> IntPart(height), H_F |-> FracPart(height),
     N_PA |-> CountPositive(<<length2, length3, length4>>)]

\* int(self.H_O * 1000)
ETC_height_mm(self) == self.H_O * 250

ETC_calc_air_vent(self) ==
    LET small == self.nominal_capacity < 100 * 64
        qty == Ceil(self.W_C * self.L_C[1], 30) + Ceil(self.W_C * self.L_C[2], 30)
               + Ceil(self.W_C * self.L_C[3], 30) + Ceil(self.W_C * self.L_C[4], 30)
    IN  Line(IF small THEN "WAV-0050A" ELSE "WAV-0100A", Max(1, qty), "ETC",
             IF small THEN "Air Vent 50mm" ELSE "Air Vent 100mm")

ETC_calc_roof_supporter(self) ==
    LET \* math.ceil((W - 1) * (L - 1) / 4) and math.floor((W - 2) * (L - 2) / 4)
        qty == Ceil((self.W_O - 4) * (self.L_N[1] - 4), 64)
               + (IF self.L_N[2] > 0
                  THEN Ceil((self.W_O - 4) * (self.L_N[2] - 4), 64) ELSE 0)
               + (IF self.L_N[3] > 0
                  THEN ((self.W_O - 8) * (self.L_N[3] - 8)) \div 64 ELSE 0)
               + (IF self.L_N[4] > 0
                  THEN ((self.W_O - 8) * (self.L_N[4] - 8)) \div 64 ELSE 0)
    IN  Line("WRS-" \o ToString(ETC_height_mm(self)) \o "F", Max(0, qty), "ETC",
             "Roof Supporter " \o ToString(ETC_height_mm(self)) \o "mm")

ETC_calc_internal_ladder(self) ==
    LET height_mm == ETC_height_mm(self)
        suffix == IF self.internal_ladder_material = LADDER_INTERNAL_FRP THEN "FI" ELSE "SI"
    IN  Line("WLD-" \o ToString(height_mm) \o suffix, self.N_PA + 1, "ETC",
             "Internal Ladder " \o ToString(height_mm) \o "mm")

ETC_calc_external_ladder(self) ==
    LET height_mm == ETC_height_mm(self)
        suffix == IF self.external_ladder_material = LADDER_EXTERNAL_SS THEN "SO" ELSE "ZO"
    IN  Line("WLD-" \o ToString(height_mm) \o suffix, 1, "ETC",
             "External Ladder " \o ToString(height_mm) \o "mm")

ETC_calc_silicon(self) ==
    LET \* math.ceil(0.1 * (W_C + W_F) * (L_O_C + L_O_F))
        qty == FCeil(FMulOver(self.L_O, 4, FMulOver(self.W_O, 4, FConst(10))))
    IN  Line("Silicon", Max(1, qty), "ETC", "Silicon Sealant (Tubes)")

\* <<>> stands for the None of LEVEL_INDICATOR_NONE
ETC_calc_level_indicator(self) ==
    IF self.level_indicator_type = LEVEL_INDICATOR_NONE THEN <<>>
    ELSE IF self.level_indicator_type = LEVEL_INDICATOR_GLASS
    THEN <<Line("WLV-" \o ToString(ETC_height_mm(self)) \o "SET(G)", self.N_PA + 1, "ETC",
                "Level Indicator Glass Type " \o ToString(ETC_height_mm(self)) \o "mm")>>
    ELSE <<Line("WLV-0000SET(S)", self.N_PA + 1, "ETC", "Level Indicator Sensor Type")>>

\* the part numbers of PanelCalculator that hold each string _calc_panel_tape
\* looks for: a panel part number is two letters, a height code and a
\* position suffix, and only its two leading letters can match
ETC_PART_NUMBERS_WITH ==
    LET codes == {PANEL_HEIGHT_CONFIG[k].bottom[1] : k \in DOMAIN PANEL_HEIGHT_CONFIG}
    IN  ("RF" :> {"RF00M"}) @@ ("1000R" :> {})
        @@ ("RH" :> {"RH10M"}) @@ ("0500R" :> {})
        @@ ("RQ" :> {"RQ10M"})
        @@ ("MH" :> {}) @@ ("HOLE" :> {})
        @@ ("WF" :> {}) @@ ("WH" :> {})
        @@ ("BF" :> {"BF" \o c \o x : c \in codes, x \in {"M", "P"}})
        @@ ("BH" :> {"BH" \o c \o "M" : c \in codes})
        @@ ("WC" :> {})

\* needle in part_no
ETC_in(needle, part_no) == part_no \in ETC_PART_NUMBERS_WITH[needle]

\* the if/elif ladder of _calc_panel_tape, in hundredths of a metre
ETC_tape_per_panel(part_no) ==
    IF ETC_in("RF", part_no) \/ ETC_in("1000R", part_no) THEN 210
    ELSE IF ETC_in("RH", part_no) \/ ETC_in("0500R", part_no) THEN 210
    ELSE IF ETC_in("RQ", part_no) THEN 160
    ELSE IF ETC_in("MH", part_no) \/ ETC_in("HOLE", part_no) THEN 110
    ELSE IF ETC_in("WF", part_no) THEN 410
    ELSE IF ETC_in("WH", part_no) THEN 520
    ELSE IF ETC_in("BF", part_no) THEN 410
    ELSE IF ETC_in("BH", part_no) THEN 410
    ELSE IF ETC_in("WC", part_no) THEN 410
    ELSE 310

\* the value of "total" after "total += term" for each term in turn
RECURSIVE ETC_sum(_, _)
ETC_sum(total, terms) ==
    IF terms = <<>> THEN total
    ELSE CHOOSE result \in {ETC_sum(next, Tail(terms)) :
                               next \in {FAdd(total, Head(terms))}} : TRUE

\* quantity * tape_per_panel, tape in hundredths and 0 for the integer 0
ETC_term(quantity, tape) ==
    IF tape = 0 THEN FInt(0) ELSE FMul(quantity, FConst(tape))

ETC_calc_panel_tape_from_dimensions(self) ==
    LET roof_full == self.W_C * self.L_O_C - 1
        wall_full_1 == self.W_C * self.L_O_C - 1
        partition_panels == self.W_C * self.H_C * self.N_PA
        \* roof_full * 2.1 + manhole_tape, then the "roof_tape +=" statements
        roof_terms ==
            <<FMul(roof_full, FConst(210)), FMul(1, FConst(210))>>
            \o (IF self.W_F > 0 THEN <<FMul(self.L_O_C, FConst(210))>> ELSE <<>>)
            \o (IF self.L_O_F > 0 THEN <<FMul(self.W_C, FConst(210))>> ELSE <<>>)
            \o (IF self.W_F > 0 /\ self.L_O_F > 0 THEN <<FConst(160)>> ELSE <<>>)
        partition_terms ==
            IF self.N_PA > 0
            THEN <<FMul(partition_panels, FConst(410))>>
                 \o (IF self.W_F > 0 THEN <<FMul(self.H_C * self.N_PA, FConst(520))>>
                     ELSE <<>>)
            ELSE <<>>
        \* roof_tape + wall_tape + corner_tape + partition_tape
        base_total ==
            ETC_sum(FInt(0),
                    <<ETC_sum(FInt(0), roof_terms),
                      FMul(wall_full_1, FConst(410)),
                      FMul(1, FConst(410)),
                      ETC_sum(FInt(0), partition_terms)>>)
    IN  FAdd(FMul(2, base_total), FInt(2))

ETC_calc_panel_tape(self) ==
    IF self.panel_data # <<>>
    THEN ETC_sum(FInt(0),
             [i \in DOMAIN self.panel_data |->
                 ETC_term(self.panel_data[i].quantity,
                          ETC_tape_per_panel(self.panel_data[i].part_no))])
    ELSE ETC_calc_panel_tape_from_dimensions(self)

\* TAPE_PER_REINFORCING.get(part_no, 0)
ETC_tape_per_reinforcing(part_no) ==
    IF part_no \in DOMAIN TAPE_PER_REINFORCING THEN TAPE_PER_REINFORCING[part_no] ELSE 0

ETC_calc_reinforcing_tape(self) ==
    IF self.reinforcing_data # <<>>
    THEN ETC_sum(FInt(0),
             [i \in DOMAIN self.reinforcing_data |->
                 ETC_term(self.reinforcing_data[i].quantity,
                          ETC_tape_per_reinforcing(self.reinforcing_data[i].part_no))])
    ELSE LET \* perimeter * 2, in halves
             perimeter == self.W_O - 4 + self.L_O - 4 - 4 * self.N_PA
             wbr_9090_qty == 4
         IN  FAdd(FAdd(FMulOver(perimeter, 2, FConst(102)),
                       FMulOver(perimeter, 2, FConst(30))),
                  FMul(wbr_9090_qty, FConst(54)))

ETC_calc_sealing_tape_50mm(self) ==
    LET total_tape == FAdd(ETC_calc_panel_tape(self), ETC_calc_reinforcing_tape(self))
    IN  Line("WST-0050RO", Max(1, FCeil(total_tape)), "ETC",
             "Sealing Tape 50mm (Meters)")

ETC_calc_sealing_tape_120mm(self) ==
    \* int(4 * H_O + 1)
    Line("WST-0120RO", self.H_O + 1, "ETC", "Sealing Tape 120mm (Roll)")

ETC_calculate_all_parts(self) ==
    PositiveOnly(<<ETC_calc_air_vent(self), ETC_calc_roof_supporter(self),
                   ETC_calc_internal_ladder(self), ETC_calc_external_ladder(self),
                   ETC_calc_silicon(self)>>
                 \o ETC_calc_level_indicator(self)
                 \o <<ETC_calc_sealing_tape_50mm(self),
                      ETC_calc_sealing_tape_120mm(self)>>)

(***************************************************************************)
(* DataLoader (data_loader.py).  The catalogue files are not part of the   *)
(* sources; two small files stand for them, with a part of every category  *)
(* the calculators write.  Prices are in cents, weights in hundredths of   *)
(* a kilogram.  A cache is the set of its entries.                         *)
(***************************************************************************)
PRICES_FILE ==
    <<[B |-> "MF00M", C |-> "kr-manhole", D |-> 1250, E |-> "1x1", F |-> "Manhole"],
      [B |-> "#N/A", C |-> "", D |-> 0, E |-> "", F |-> ""],
      [B |-> "WSD-050A", C |-> "kr-sd", D |-> 325, E |-> "50", F |-> "Suction/Drain 50"],
      [B |-> "WBR-5010Z", C |-> "kr-anchor", D |-> 410, E |-> "50x10", F |-> "Anchor Bracket"],
      [B |-> "WBT-1440Z", C |-> "kr-bolt", D |-> 35, E |-> "M14x40", F |-> "Bolt M14x40"],
      [B |-> "WCF-2000Z", C |-> "kr-corner", D |-> 1870, E |-> "2000", F |-> "Corner Frame 2000"],
      [B |-> "WCP-1760SA2", C |-> "kr-plate", D |-> 990, E |-> "1760", F |-> "Corner Plate 1760"],
      [B |-> "NUT(SA4)", C |-> "kr-nut", D |-> 15, E |-> "M12", F |-> "Nut"],
      [B |-> "TR-12M4880SA4", C |-> "kr-rod", D |-> 2105, E |-> "4880", F |-> "Tie Rod 4880"],
      [B |-> "WAV-0050A", C |-> "kr-vent", D |-> 780, E |-> "50", F |-> "Air Vent 50"]>>

WEIGHTS_FILE ==
    <<[A |-> "MF00M", B |-> 750],
      [A |-> "WSD-050A", B |-> 125],
      [A |-> "WBR-5010Z", B |-> 85],
      [A |-> "WBT-1440Z", B |-> 12],
      [A |-> "WCF-2000Z", B |-> 640],
      [A |-> "WCP-1760SA2", B |-> 230],
      [A |-> "NUT(SA4)", B |-> 3],
      [A |-> "TR-12M4880SA4", B |-> 435],
      [A |-> "WAV-0050A", B |-> 65]>>

\* one iteration of the loop of get_prices
Loader_put_price(cache, data) ==
    IF data.B # "" /\ data.B # "#N/A"
    THEN {e \in cache : e.part_no # data.B}
         \cup {[part_no |-> data.B, name_kr |-> data.C, price_usd |-> data.D,
                spec |-> data.E, name_en |-> data.F]}
    ELSE cache

\* one iteration of the loop of get_weights
Loader_put_weight(cache, data) ==
    IF data.A # "" /\ data.B # 0
    THEN IF \A e \in cache : e.part_no # data.A \/ e.weight = 0
         THEN {e \in cache : e.part_no # data.A}
              \cup {[part_no |-> data.A, weight |-> data.B]}
         ELSE cache
    ELSE cache

RECURSIVE Loader_fill_prices(_, _)
Loader_fill_prices(cache, rows) ==
    IF rows = <<>> THEN cache
    ELSE Loader_fill_prices(Loader_put_price(cache, Head(rows)), Tail(rows))

RECURSIVE Loader_fill_weights(_, _)
Loader_fill_weights(cache, rows) ==
    IF rows = <<>> THEN cache
    ELSE Loader_fill_weights(Loader_put_weight(cache, Head(rows)), Tail(rows))

\* get_prices run by one thread with no other thread running
Loader_get_prices(cache) ==
    IF cache = {} THEN Loader_fill_prices(cache, PRICES_FILE) ELSE cache

\* get_weights run by one thread with no other thread running
Loader_get_weights(cache) ==
    IF cache = {} THEN Loader_fill_weights(cache, WEIGHTS_FILE) ELSE cache

\* the dictionary built by get_part_info from the two dictionaries
Loader_part_info(prices, weights, part_no) ==
    LET part_data == {e \in prices : e.part_no = part_no}
        weight == {e \in weights : e.part_no = part_no}
    IN  [part_no |-> part_no,
         name |-> IF part_data = {} THEN "" ELSE (CHOOSE e \in part_data : TRUE).name_en,
         price_usd |-> IF part_data = {} THEN 0 ELSE (CHOOSE e \in part_data : TRUE).price_usd,
         weight_kg |-> IF weight = {} THEN 0 ELSE (CHOOSE e \in weight : TRUE).weight,
         found |-> part_data # {}]

(***************************************************************************)
(* CalculationEngine (calculation_engine.py).  An engine is the record of  *)
(* its request and bom_items together with the caches of the DataLoader    *)
(* singleton it holds.                                                     *)
(***************************************************************************)
BOMItem(part_no, part_name, quantity, unit_price_usd, weight_kg, category) ==
    [part_no |-> part_no, part_name |-> part_name, quantity |-> quantity,
     unit_price_usd |-> unit_price_usd, total_price_usd |-> unit_price_usd * quantity,
     weight_kg |-> weight_kg, total_weight_kg |-> weight_kg * quantity,
     category |-> category]

\* variant: the line is appended whatever its quantity
Engine_add_bom_item_unguarded(self, part_no, quantity, category, description) ==
    LET prices == Loader_get_prices(self.prices_cache)
        weights == Loader_get_weights(self.weights_cache)
        part_info == Loader_part_info(prices, weights, part_no)
    IN  [self EXCEPT
           !.prices_cache = prices,
           !.weights_cache = weights,
           !.bom_items = Append(@, BOMItem(part_no, part_info.name, quantity,
                                           part_info.price_usd, part_info.weight_kg,
                                           category))]

Engine_add_bom_item(self, part_no, quantity, category, description) ==
    IF quantity <= 0 THEN self
    ELSE
    LET prices == Loader_get_prices(self.prices_cache)
        weights == Loader_get_weights(self.weights_cache)
        part_info == Loader_part_info(prices, weights, part_no)
    IN  [self EXCEPT
           !.prices_cache = prices,
           !.weights_cache = weights,
           !.bom_items = Append(@, BOMItem(part_no, part_info.name, quantity,
                                           part_info.price_usd, part_info.weight_kg,
                                           category))]

\* variant: the per-unit quantity is taken as it is
Engine_scaled_quantity_unscaled(self, part) == part.quantity

\* part["quantity"] * self.quantity
Engine_scaled_quantity(self, part) == part.quantity * self.request.dimensions.quantity

RECURSIVE Engine_add_parts_from_calculator(_, _)
Engine_add_parts_from_calculator(self, parts) ==
    IF parts = <<>> THEN self
    ELSE Engine_add_parts_from_calculator(
             Engine_add_bom_item(self, Head(parts).part_no,
                                 Engine_scaled_quantity(self, Head(parts)),
                                 Head(parts).category, Head(parts).description),
             Tail(parts))

\* skid_type_map.get(steel_option, 1)
Engine_skid_type(steel_option) ==
    CASE steel_option = "Default" -> 1
      [] steel_option = "Angle 75" -> 2
      [] steel_option = "Channel 125" -> 3
      [] steel_option = "Channel 150" -> 4
      [] steel_option = "Except SKB" -> 5
      [] OTHER -> 1

\* bolt_option_map.get(bolts_option_str, 1)
Engine_bolt_option(bolts_option_str) ==
    CASE bolts_option_str = "EXT:HDG/INT:SS304+R/F:HDG" -> 1
      [] bolts_option_str = "EXT:HDG/INT:SS304+R/F:SS304" -> 2
      [] bolts_option_str = "EXT:SS304/INT:SS316" -> 3
      [] bolts_option_str = "EXT:HDG/INT:SS316" -> 4
      [] bolts_option_str = "EXT:SS304/INT:SS304" -> 5
      [] bolts_option_str = "EXT:SS316/INT:SS316" -> 6
      [] bolts_option_str = "Except All Bolts" -> 7
      [] bolts_option_str = "Except Panel Assemble Bolts" -> 8
      [] OTHER -> 1

Engine_calculate_panels(self) ==
    LET d == self.request.dimensions
        calculator == PanelCalculator(d.width, d.length1, d.length2, d.length3,
                                      d.length4, d.height,
                                      self.request.panel_options.use_side_panel_1x1,
                                      self.request.panel_options.use_partition_panel_1x1,
                                      self.request.panel_options.insulated)
    IN  Engine_add_parts_from_calculator(self, Panel_calculate_all_panels(calculator))

Engine_calculate_steel_skid(self) ==
    LET d == self.request.dimensions
        calculator == SteelSkidCalculator(d.width, d.length1, d.length2, d.length3,
                                          d.length4, d.height,
                                          Engine_skid_type(self.request.steel_options.steel_skid))
    IN  Engine_add_parts_from_calculator(self, Skid_calculate_all_parts(calculator))

\* the parameter names BoltsCalculator.__init__ accepts
BoltsCalculator_parameters ==
    {"width", "length1", "length2", "length3", "length4", "height", "bolt_option",
     "skid_type", "insulation_type", "steel_skid_m9", "steel_skid_m36",
     "ext_reinforcing_l22", "ext_reinforcing_l23", "ext_reinforcing_l24",
     "int_reinforcing_p18", "int_reinforcing_p19"}

\* the keyword arguments of the call BoltsCalculator(...) in _calculate_bolts_nuts
Engine_bolts_keywords ==
    {"width", "length1", "length2", "length3", "length4", "height", "bolt_option",
     "use_side_1x1"}

\* a call with a keyword the callee does not declare raises TypeError
Engine_bolts_call_raises == ~(Engine_bolts_keywords \subseteq BoltsCalculator_parameters)

\* _calculate_bolts_nuts when the constructor call goes through; the
\* parameters the call leaves out take their defaults
Engine_calculate_bolts_nuts(self) ==
    LET d == self.request.dimensions
        calculator == BoltsCalculator(d.width, d.length1, d.length2, d.length3,
                                      d.length4, d.height,
                                      Engine_bolt_option(self.request.steel_options.bolts_nuts),
                                      1, 0, 0, 0, 0, 0, 0, 0, 0)
    IN  Engine_add_parts_from_calculator(self, Bolts_calculate_all_parts(calculator))

\* 2 if "SS316" in material_str else 4
Engine_internal_material(material_str) ==
    IF material_str = "SS316" THEN MATERIAL_SS316 ELSE MATERIAL_SS304

\* the calculator _calculate_reinforcing builds
Engine_reinforcing_calculator(self) ==
    LET d == self.request.dimensions
    IN  ReinforcingCalculator(d.width, d.length1, d.length2, d.length3, d.length4, d.height,
            Engine_internal_material(self.request.steel_options.internal_material),
            self.request.panel_options.use_side_panel_1x1, FALSE)

Engine_calculate_reinforcing(self) ==
    Engine_add_parts_from_calculator(self,
        Reinf_calculate_all_parts(Engine_reinforcing_calculator(self)))

\* 2 if "SS316" in material_str else 4
Engine_tie_rod_material(material_str) ==
    IF material_str \in {"SS316", "SS316+PE Coated"} THEN 2 ELSE 4

\* 2 if "M16" in spec_str else 1
Engine_tie_rod_spec(spec_str) ==
    IF spec_str = "M16" THEN SPEC_M16 ELSE SPEC_M12

\* the calculator _calculate_tie_rods builds
Engine_tie_rod_calculator(self) ==
    LET d == self.request.dimensions
    IN  TieRodCalculator(d.width, d.length1, d.length2, d.length3, d.length4, d.height,
            Engine_tie_rod_material(self.request.steel_options.tie_rod_material),
            Engine_tie_rod_spec(self.request.steel_options.tie_rod_spec))

\* the lines _calculate_tie_rods hands to the BOM: the rods and connectors,
\* then the accessories; none below 2 m
Engine_tie_rod_parts(self) ==
    IF self.request.dimensions.height < 2 * 4 THEN <<>>
    ELSE TieRod_calculate_all_parts(Engine_tie_rod_calculator(self))
         \o TieRod_get_tie_rod_accessories(Engine_tie_rod_calculator(self))

Engine_calculate_tie_rods(self) ==
    IF self.request.dimensions.height < 2 * 4 THEN self
    ELSE Engine_add_parts_from_calculator(
             Engine_add_parts_from_calculator(self,
                 TieRod_calculate_all_parts(Engine_tie_rod_calculator(self))),
             TieRod_get_tie_rod_accessories(Engine_tie_rod_calculator(self)))

\* level_indicator_map.get(level_indicator_str, 1)
Engine_level_indicator_type(level_indicator_str) ==
    CASE level_indicator_str = "General" -> 1
      [] level_indicator_str = "Sensor" -> 2
      [] level_indicator_str = "No needed" -> 0
      [] OTHER -> 1

\* 2 if "GRP" in int_ladder_mat or "FRP" in int_ladder_mat else 1
Engine_int_ladder_material(int_ladder_mat) ==
    IF int_ladder_mat = "GRP" THEN 2 ELSE 1

\* 2 if "SS" in ext_ladder_mat else 1
Engine_ext_ladder_material(ext_ladder_mat) ==
    IF ext_ladder_mat \in {"SS304", "SS316"} THEN 2 ELSE 1

\* the calculator _calculate_etc builds: the call passes neither panel_data
\* nor reinforcing_data, which take their default None
Engine_etc_calculator(self) ==
    LET d == self.request.dimensions
        a == self.request.accessory_options
    IN  ETCCalculator(d.width, d.length1, d.length2, d.length3, d.length4, d.height,
                      d.width * (d.length1 + d.length2 + d.length3 + d.length4) * d.height,
                      Engine_level_indicator_type(a.level_indicator),
                      Engine_int_ladder_material(a.internal_ladder_material),
                      Engine_ext_ladder_material(a.external_ladder_material),
                      <<>>, <<>>)

Engine_calculate_etc(self) ==
    Engine_add_parts_from_calculator(self, ETC_calculate_all_parts(Engine_etc_calculator(self)))

\* the fittings_config entry _calculate_fittings builds from one FittingItem
Engine_fitting_config(fitting) ==
    LET part_no == fitting.fitting_type
        size == ParseInt(Slice(part_no, 4, 7))
    IN  IF part_no # <<>> /\ part_no[1] = Ord("W")
        THEN [type |-> Slice(part_no, 1, 3),
              size |-> IF size.ok THEN size.value ELSE 50,
              quantity |-> fitting.quantity]
        ELSE [type |-> Text(<<"S", "D">>), size |-> 50, quantity |-> fitting.quantity]

Engine_fittings_parts(self) ==
    Fittings_calculate_all_parts(
        [i \in DOMAIN self.request.fittings |->
            Engine_fitting_config(self.request.fittings[i])])

RECURSIVE Engine_add_fittings(_, _)
Engine_add_fittings(self, parts) ==
    IF parts = <<>> THEN self
    ELSE Engine_add_fittings(
             Engine_add_bom_item(self, Head(parts).part_no,
                                 Engine_scaled_quantity(self, Head(parts)),
                                 "Fittings", Head(parts).description),
             Tail(parts))

Engine_calculate_fittings(self) ==
    IF self.request.fittings = <<>> THEN self
    ELSE Engine_add_fittings(self, Engine_fittings_parts(self))

\* variant: the dict has no key for the fittings
Engine_cost_categories_without_fittings ==
    <<"Panels", "Steel Skid", "Bolts & Nuts", "External Reinforcing", "Internal Reinforcing",
      "Internal Tie-rod", "Tie Rods", "Tie Rod Accessories", "ETC", "Etc">>

\* the keys of the dict categories of _calculate_cost_summary, in its order
Engine_cost_categories ==
    <<"Panels", "Steel Skid", "Bolts & Nuts", "External Reinforcing", "Internal Reinforcing",
      "Internal Tie-rod", "Tie Rods", "Tie Rod Accessories", "ETC", "Etc", "Fittings">>

\* the floats item.total_price_usd of the BOM lines of the categories, in
\* BOM order; a line total is round(x, 2), the double of its cents
RECURSIVE Engine_category_price(_, _)
Engine_category_price(items, categories) ==
    IF items = <<>> THEN <<>>
    ELSE When(Head(items).category \in categories, FConst(Head(items).total_price_usd))
         \o Engine_category_price(Tail(items), categories)

\* the floats item.total_weight_kg of the BOM lines of the categories
RECURSIVE Engine_category_weight(_, _)
Engine_category_weight(items, categories) ==
    IF items = <<>> THEN <<>>
    ELSE When(Head(items).category \in categories, FConst(Head(items).total_weight_kg))
         \o Engine_category_weight(Tail(items), categories)

\* _calculate_cost_summary: the sums are floats, the amounts returned are
\* in cents
Engine_calculate_cost_summary(self) ==
    LET keys == {Engine_cost_categories[i] : i \in DOMAIN Engine_cost_categories}
        categories == [i \in DOMAIN Engine_cost_categories |->
                          FSum(FInt(0), Engine_category_price(self.bom_items,
                                                              {Engine_cost_categories[i]}))]
        value(c) == IF c \in keys
                    THEN categories[CHOOSE i \in DOMAIN categories : Engine_cost_categories[i] = c]
                    ELSE FInt(0)
        total_tie_rod == FAdd(FAdd(value("Internal Tie-rod"), value("Tie Rods")),
                              value("Tie Rod Accessories"))
        total_etc == FAdd(value("ETC"), value("Etc"))
        total_usd == FSum(FInt(0), categories)
    IN  [panels |-> RoundToCent(value("Panels")),
         steel_skid |-> RoundToCent(value("Steel Skid")),
         bolts_nuts |-> RoundToCent(value("Bolts & Nuts")),
         external_reinforcing |-> RoundToCent(value("External Reinforcing")),
         internal_reinforcing |-> RoundToCent(value("Internal Reinforcing")),
         internal_tie_rod |-> RoundToCent(total_tie_rod),
         etc |-> RoundToCent(total_etc),
         fittings |-> RoundToCent(value("Fittings")),
         total_usd |-> RoundToCent(total_usd),
         total_sar |-> RoundProductToCent(total_usd, FConst(self.request.exchange_rate))]

\* _calculate_weight_summary: weights returned in hundredths of a kilogram
Engine_calculate_weight_summary(self) ==
    LET panels_weight == FSum(FInt(0), Engine_category_weight(self.bom_items, {"Panels"}))
        steel_weight ==
            FSum(FInt(0), Engine_category_weight(self.bom_items,
                {"Steel Skid", "Bolts & Nuts", "External Reinforcing", "Internal Reinforcing",
                 "Internal Tie-rod", "Tie Rods", "Tie Rod Accessories"}))
        accessories_weight ==
            FSum(FInt(0), Engine_category_weight(self.bom_items, {"Etc", "ETC", "Fittings"}))
    IN  [panels_kg |-> RoundToCent(panels_weight),
         steel_kg |-> RoundToCent(steel_weight),
         accessories_kg |-> RoundToCent(accessories_weight),
         total_kg |-> RoundToCent(FAdd(FAdd(panels_weight, steel_weight), accessories_weight))]

(***************************************************************************)
(* State                                                                   *)
(***************************************************************************)
VARIABLES
    request,        \* the TankConfigRequest in hand
    bom_items,      \* CalculationEngine.bom_items
    prices_cache,   \* DataLoader._prices_cache of the singleton
    weights_cache,  \* DataLoader._weights_cache of the singleton
    caller,         \* who calls calculate(): the endpoint or code holding the engine
    pc,             \* where the call of calculate() stands
    calls,          \* calls of calculate() made on the engine so far
    capacity,       \* the CapacityInfo of the running call
    exception,      \* the exception that left calculate(), "none" if none
    http_status,    \* status of the HTTP reply, 0 while there is none
    ended_bom,      \* bom_items as each earlier call of calculate() left it
    op,             \* the method last called directly on a calculator or engine
    parts,          \* the part list that method worked on or returned
    before,         \* bom_items before that method
    calculator,     \* the calculator object that method belongs to
    cost_summary,   \* the CostSummary last computed, NoSummary if none
    weight_summary, \* the WeightSummary last computed, NoSummary if none
    threads         \* the threads that look parts up in the DataLoader singleton

engineVars == <<request, bom_items, prices_cache, weights_cache>>
calculateVars == <<caller, pc, calls, capacity, exception, http_status, ended_bom>>
summaryVars == <<cost_summary, weight_summary>>
callVars == <<calculateVars, summaryVars>>
directVars == <<op, parts, before, calculator>>
vars == <<engineVars, callVars, directVars, threads>>

Self == [request |-> request, bom_items |-> bom_items,
         prices_cache |-> prices_cache, weights_cache |-> weights_cache]

\* the engine and the loader it holds become self2
Becomes(self2) ==
    /\ bom_items' = self2.bom_items
    /\ prices_cache' = self2.prices_cache
    /\ weights_cache' = self2.weights_cache
    /\ request' = request

(***************************************************************************)
(* Inputs: footprints on the half-metre grid, the footprints of the        *)
(* repository's tests, heights on the quarter-metre grid.                  *)
(***************************************************************************)
Halves(n) == {2 * i : i \in 1..n}

GoldenDims ==
    {<<20, 20, 0, 0, 0>>, <<40, 20, 0, 0, 0>>, <<40, 16, 8, 8, 0>>,
     <<40, 20, 20, 20, 0>>, <<40, 16, 16, 0, 0>>}

\* a wide tank with a compartment of 1 m beside one of 4 m
ShortSegmentDims == {<<40, 16, 4, 0, 0>>}

GridDims ==
    {<<w, l1, l2, l3, l4>> : w \in Halves(MaxGridHalves), l1 \in Halves(MaxGridHalves),
                             l2 \in {0} \cup Halves(MaxPartHalves),
                             l3 \in {0, 4}, l4 \in {0, 4}}

\* footprints off the half-metre grid: 2.25 x 2 m, 2.25 x 2.5 m, and
\* 2.75 x 1.5 m with a compartment of 0.5 m
QuarterDims == {<<9, 8, 0, 0, 0>>, <<9, 10, 0, 0, 0>>, <<11, 6, 2, 0, 0>>}

Heights == 1..MaxHeightQuarters

Dimensions(f, h, n) ==
    [width |-> f[1], length1 |-> f[2], length2 |-> f[3], length3 |-> f[4],
     length4 |-> f[5], height |-> h, quantity |-> n]

\* TankConfigRequest.exchange_rate, in hundredths: the default 3.75
DefaultExchangeRate == 375

\* the exchange rates of the requests, in hundredths: 3.75 is a binary
\* fraction, 3.77 and 3.80 are not, and a total of x.50 at 3.77 is a product
\* half way between two cents that the double decides
ExchangeRates == {DefaultExchangeRate, 377, 380}

DefaultPanelOptions ==
    [use_side_panel_1x1 |-> FALSE, use_partition_panel_1x1 |-> FALSE, insulated |-> FALSE]

DefaultSteelOptions ==
    [steel_skid |-> "Default", internal_material |-> "SS316",
     bolts_nuts |-> "EXT:HDG/INT:SS316", tie_rod_material |-> "SS316",
     tie_rod_spec |-> "M12"]

DefaultAccessoryOptions ==
    [level_indicator |-> "General", internal_ladder_material |-> "GRP",
     internal_ladder_qty |-> -1, external_ladder_material |-> "HDG",
     external_ladder_qty |-> -1]

\* the requests sent through calculate()
Requests ==
    {[dimensions |-> Dimensions(f, h, n),
      panel_options |-> [DefaultPanelOptions EXCEPT !.use_side_panel_1x1 = s],
      steel_options |-> [DefaultSteelOptions EXCEPT !.steel_skid = k],
      accessory_options |-> DefaultAccessoryOptions,
     fittings |-> <<>>, exchange_rate |-> DefaultExchangeRate] :
        f \in GoldenDims \cup {g \in GridDims : g[4] = 0 /\ g[5] = 0},
        h \in Heights, n \in 1..MaxQuantity,
        s \in BOOLEAN, k \in {"Default", "Except SKB"}}

NoCapacity == [total_length |-> 0, num_partitions |-> 0]

NoCalculator == [N_PA |-> 0]

NoSummary == [total |-> -1]

\* the threads of the server that may call the DataLoader at the same time
Threads == {"t1", "t2"}

NoInfo == [part_no |-> "", name |-> "", price_usd |-> 0, weight_kg |-> 0, found |-> FALSE]

IdleThread == [pc |-> "idle", call |-> "", part_no |-> "", i |-> 0, result |-> NoInfo]

InitIdle ==
    /\ bom_items = <<>>
    /\ prices_cache = {}
    /\ weights_cache = {}
    /\ pc = "start"
    /\ calls = 0
    /\ capacity = NoCapacity
    /\ exception = "none"
    /\ http_status = 0
    /\ ended_bom = <<>>
    /\ op = "none"
    /\ parts = <<>>
    /\ before = <<>>
    /\ calculator = NoCalculator
    /\ cost_summary = NoSummary
    /\ weight_summary = NoSummary
    /\ threads = [t \in Threads |-> IdleThread]

(***************************************************************************)
(* calculate() as its callers run it.  POST /calculate builds an engine    *)
(* for the request and calls calculate() once; code that holds an engine   *)
(* can call calculate() again.  The steps after _calculate_bolts_nuts      *)
(* are never entered (see Engine_bolts_call_raises), so they are not       *)
(* actions of this specification.                                          *)
(***************************************************************************)
Init ==
    /\ request \in Requests
    /\ caller \in {"endpoint", "direct"}
    /\ InitIdle

\* CalculationEngine(request) followed by the entry into calculate()
calculate_tank_config ==
    /\ pc = "start"
    /\ pc' = "capacity"
    /\ calls' = 1
    /\ bom_items' = <<>>
    /\ UNCHANGED <<threads, request, prices_cache, weights_cache, summaryVars, caller, capacity, exception,
                   http_status, ended_bom, directVars>>

calculate_capacity ==
    /\ pc = "capacity"
    /\ capacity' = [total_length |-> request.dimensions.length1 + request.dimensions.length2
                                     + request.dimensions.length3 + request.dimensions.length4,
                    num_partitions |-> CountPositive(<<request.dimensions.length2,
                                                       request.dimensions.length3,
                                                       request.dimensions.length4>>)]
    /\ pc' = "panels"
    /\ UNCHANGED <<threads, engineVars, summaryVars, caller, calls, exception, http_status, ended_bom, directVars>>

calculate_panels ==
    /\ pc = "panels"
    /\ Becomes(Engine_calculate_panels(Self))
    /\ pc' = "steel_skid"
    /\ UNCHANGED <<threads, summaryVars, caller, calls, capacity, exception, http_status, ended_bom, directVars>>

calculate_steel_skid ==
    /\ pc = "steel_skid"
    /\ Becomes(Engine_calculate_steel_skid(Self))
    /\ pc' = "bolts_nuts"
    /\ UNCHANGED <<threads, summaryVars, caller, calls, capacity, exception, http_status, ended_bom, directVars>>

calculate_bolts_nuts ==
    /\ pc = "bolts_nuts"
    /\ IF Engine_bolts_call_raises
       THEN /\ exception' = "TypeError"
            /\ pc' = "raised"
            /\ UNCHANGED engineVars
       ELSE /\ Becomes(Engine_calculate_bolts_nuts(Self))
            /\ pc' = "reinforcing"
            /\ UNCHANGED exception
    /\ UNCHANGED <<threads, summaryVars, caller, calls, capacity, http_status, ended_bom, directVars>>

\* except Exception as e: raise HTTPException(status_code=400, ...)
calculate_configuration_except ==
    /\ caller = "endpoint"
    /\ pc = "raised"
    /\ http_status' = 400
    /\ pc' = "replied"
    /\ UNCHANGED <<threads, engineVars, summaryVars, caller, calls, capacity, exception, ended_bom, directVars>>

\* the holder of the engine calls calculate() once more
calculate_again ==
    /\ caller = "direct"
    /\ pc = "raised"
    /\ calls < MaxCalls
    /\ ended_bom' = Append(ended_bom, bom_items)
    /\ calls' = calls + 1
    /\ exception' = "none"
    /\ capacity' = NoCapacity
    /\ pc' = "capacity"
    /\ UNCHANGED <<threads, engineVars, summaryVars, caller, http_status, directVars>>

Next ==
    \/ calculate_tank_config
    \/ calculate_capacity
    \/ calculate_panels
    \/ calculate_steel_skid
    \/ calculate_bolts_nuts
    \/ calculate_configuration_except
    \/ calculate_again

Spec == Init /\ [][Next]_vars

(***************************************************************************)
(* Properties of calculate() (specification Spec)                          *)
(***************************************************************************)
\* the call of calculate() has ended, by an exception or past its last
\* reachable step
CallEnded == pc \in {"raised", "replied", "reinforcing"}

\* C1: for every accepted request calculate() runs its steps to the end and
\* returns a response: no exception leaves calculate(), and the endpoint
\* does not answer with an error status.
C1_CalculateReturnsResponse == exception = "none" /\ http_status # 400

\* the BOM lines of one module, by the categories its calculator writes
LinesOf(bom, categories) == SelectSeq(bom, LAMBDA b : b.category \in categories)

\* C4: a step that raises does not abort the run: whenever a step has
\* raised, the call neither ends with that exception nor is answered with
\* an error, and the lines of the other modules are in the BOM it returns.
C4_RaisingStepIsIsolated ==
    exception # "none" =>
        /\ pc \notin {"raised", "replied"}
        /\ LinesOf(bom_items, {"Panels"}) # <<>>

\* C5: a later call of calculate() on the same engine leaves the same BOM
\* as every earlier call did: no line of an earlier call is carried over.
C5_SecondCallSameBOM ==
    CallEnded => \A i \in DOMAIN ended_bom : bom_items = ended_bom[i]

\* the request of the 5 x 5 x 2 m tank with every option at its default
Request5x5x2 ==
    [dimensions |-> Dimensions(<<20, 20, 0, 0, 0>>, 8, 1),
     panel_options |-> DefaultPanelOptions,
     steel_options |-> DefaultSteelOptions,
     accessory_options |-> DefaultAccessoryOptions,
     fittings |-> <<>>, exchange_rate |-> DefaultExchangeRate]

\* C8: for the 5 x 5 x 2 m tank with default options, once the bolts step
\* of the engine has run, the BOM has the line WBT-1440Z with quantity 90.
C8_Engine5x5x2Emits90 ==
    (request = Request5x5x2 /\ calls = 1 /\ CallEnded) =>
        \E i \in DOMAIN bom_items :
            bom_items[i].part_no = "WBT-1440Z" /\ bom_items[i].quantity = 90

(***************************************************************************)
(* Calculators called on their own (specification SpecCalculators): each   *)
(* behaviour builds one calculator for the dimensions in hand and runs     *)
(* one of its methods.                                                     *)
(***************************************************************************)
CalculatorRequests ==
    {[dimensions |-> Dimensions(f, h, 1),
      panel_options |-> DefaultPanelOptions,
      steel_options |-> DefaultSteelOptions,
      accessory_options |-> DefaultAccessoryOptions,
      fittings |-> <<>>, exchange_rate |-> DefaultExchangeRate] :
        f \in GoldenDims \cup ShortSegmentDims \cup GridDims \cup QuarterDims, h \in Heights}

InitCalculators ==
    /\ request \in CalculatorRequests
    /\ caller = "direct"
    /\ InitIdle

panel_calculate_all_panels ==
    /\ op = "none"
    /\ \E use_side_1x1 \in BOOLEAN, use_partition_1x1 \in BOOLEAN, insulated \in BOOLEAN :
         LET d == request.dimensions
             c == PanelCalculator(d.width, d.length1, d.length2, d.length3, d.length4,
                                  d.height, use_side_1x1, use_partition_1x1, insulated)
         IN  /\ calculator' = c
             /\ parts' = Panel_calculate_all_panels(c)
    /\ op' = "calculate_all_panels"
    /\ UNCHANGED <<threads, engineVars, callVars, before>>

etc_calc_internal_ladder ==
    /\ op = "none"
    /\ \E material \in {LADDER_INTERNAL_SS, LADDER_INTERNAL_FRP} :
         LET d == request.dimensions
             c == ETCCalculator(d.width, d.length1, d.length2, d.length3, d.length4,
                                d.height, 0, 1, material, 1, <<>>, <<>>)
         IN  /\ calculator' = c
             /\ parts' = <<ETC_calc_internal_ladder(c)>>
    /\ op' = "calc_internal_ladder"
    /\ UNCHANGED <<threads, engineVars, callVars, before>>

\* get_all_parts of tests/test_all_parts.py, its BoltsCalculator: the
\* cross-plate quantities are read off the reinforcing calculator's parts
get_all_parts_bolts_calculator(d, bolt_option, reinf_parts) ==
    BoltsCalculator(d.width, d.length1, d.length2, d.length3, d.length4, d.height,
                    bolt_option, 1, 0, 0, 0,
                    QuantityOf(reinf_parts, "WCP-1780Z"),
                    QuantityOf(reinf_parts, "WCP-1616Z"),
                    QuantityOf(reinf_parts, "WCP-17120Z"),
                    QuantityOf(reinf_parts, "WCP-1616SA2") + QuantityOf(reinf_parts, "WCP-1616SA4"),
                    QuantityOf(reinf_parts, "WCP-1780SA2") + QuantityOf(reinf_parts, "WCP-1780SA4"))

\* BoltsCalculator(...).calculate_all_parts(), with the reinforcing
\* quantities left at their defaults or threaded as get_all_parts does
bolts_calculate_all_parts ==
    /\ op = "none"
    /\ \E bolt_option \in 1..8, threaded \in BOOLEAN :
         \E reinf_parts \in {IF threaded
                              THEN Reinf_calculate_all_parts(
                                       ReinforcingCalculator(request.dimensions.width,
                                           request.dimensions.length1, request.dimensions.length2,
                                           request.dimensions.length3, request.dimensions.length4,
                                           request.dimensions.height, MATERIAL_SS304, FALSE, FALSE))
                              ELSE <<>>} :
           \E c \in {get_all_parts_bolts_calculator(request.dimensions, bolt_option, reinf_parts)} :
             /\ calculator' = c
             /\ parts' = Bolts_calculate_all_parts(c)
    /\ op' = "bolts_calculate_all_parts"
    /\ UNCHANGED <<threads, engineVars, callVars, before>>

\* SteelSkidCalculator(..., skid_type).calculate_all_parts()
skid_calculate_all_parts ==
    /\ op = "none"
    /\ \E skid_type \in SKID_TYPE_DEFAULT..SKID_TYPE_EXCEPT :
         \E c \in {SteelSkidCalculator(request.dimensions.width, request.dimensions.length1,
                                       request.dimensions.length2, request.dimensions.length3,
                                       request.dimensions.length4, request.dimensions.height,
                                       skid_type)} :
           /\ calculator' = c
           /\ parts' = Skid_calculate_all_parts(c)
    /\ op' = "skid_calculate_all_parts"
    /\ UNCHANGED <<threads, engineVars, callVars, before>>

\* TieRodCalculator(...): calculate_all_parts() followed by
\* get_tie_rod_accessories(), as get_all_parts and the engine call them
tie_rod_calculate_all_parts ==
    /\ op = "none"
    /\ \E tie_rod_material \in {MATERIAL_SS316, MATERIAL_SS304},
          tie_rod_spec \in {SPEC_M12, SPEC_M16} :
         \E c \in {TieRodCalculator(request.dimensions.width, request.dimensions.length1,
                                    request.dimensions.length2, request.dimensions.length3,
                                    request.dimensions.length4, request.dimensions.height,
                                    tie_rod_material, tie_rod_spec)} :
           /\ calculator' = c
           /\ parts' = TieRod_calculate_all_parts(c) \o TieRod_get_tie_rod_accessories(c)
    /\ op' = "tie_rod_calculate_all_parts"
    /\ UNCHANGED <<threads, engineVars, callVars, before>>

NextCalculators ==
    \/ panel_calculate_all_panels
    \/ etc_calc_internal_ladder
    \/ bolts_calculate_all_parts
    \/ skid_calculate_all_parts
    \/ tie_rod_calculate_all_parts

SpecCalculators == InitCalculators /\ [][NextCalculators]_vars

(***************************************************************************)
(* Engine methods called on their own (specification SpecEngine): an       *)
(* engine is built for a request and handed a list of parts, as the first  *)
(* three steps of calculate() hand it the output of a calculator; the      *)
(* later steps of calculate() run in its order, from any of them on and    *)
(* up to any of them, and the summaries are taken of the BOM they leave.   *)
(***************************************************************************)
\* the fitting_type strings of the requests: three offered part numbers, a
\* size behind a vertical tab (0x0B), a size in Arabic-Indic digits (U+0665),
\* a size behind an em space (U+2003), and a string that is no part number
FittingCodes ==
    {Text(<<"W", "S", "D", "-", "0", "5", "0", "A">>),
     Text(<<"W", "F", "L", "-", "1", "0", "0", "A">>),
     Text(<<"W", "O", "T", "-", "0", "8", "0", "A">>),
     Text(<<"W", "S", "D", "-">>) \o <<11>> \o Text(<<"6", "5">>),
     Text(<<"W", "S", "D", "-">>) \o <<1637, 1637, 1637>>,
     Text(<<"W", "S", "D", "-">>) \o <<8195>> \o Text(<<"6", "5">>),
     Text(<<"X", "Y", "Z">>)}

\* the offered part numbers in every quantity, the other strings once
FittingItems ==
    {[fitting_type |-> t, quantity |-> q] :
        t \in {c \in FittingCodes : Join(c) \in Fittings_get_available_fittings},
        q \in 1..MaxQuantity}
    \cup {[fitting_type |-> t, quantity |-> 1] : t \in FittingCodes}

\* lists of at most two entries
ShortLists(S) == {<<>>} \cup {<<a>> : a \in S} \cup {<<a, b>> : a \in S, b \in S}

EngineRequest(n, fs, r) ==
    [dimensions |-> Dimensions(<<20, 20, 0, 0, 0>>, 8, n),
     panel_options |-> DefaultPanelOptions,
     steel_options |-> DefaultSteelOptions,
     accessory_options |-> DefaultAccessoryOptions,
     fittings |-> fs, exchange_rate |-> r]

\* every list of fittings at the default exchange rate, and the lists of at
\* most one fitting at every exchange rate
EngineRequests ==
    {EngineRequest(n, fs, DefaultExchangeRate) :
        n \in 1..MaxQuantity, fs \in ShortLists(FittingItems)}
    \cup {EngineRequest(n, fs, r) :
             n \in 1..MaxQuantity, fs \in {<<>>} \cup {<<a>> : a \in FittingItems},
             r \in ExchangeRates}

\* one line of a part of the catalogue for each of the first three steps of
\* calculate(): a panel, a part of the steel skid and a bolt
StepLines ==
    <<Line("MF00M", 1, "Panels", ""), Line("WBR-5010Z", 1, "Steel Skid", ""),
      Line("WBT-1440Z", MaxQuantity, "Bolts & Nuts", "")>>

\* part lines as a calculator may hand them over: two panels, one of them
\* not in the catalogue, in quantities of any sign, and the lines above
PartItems ==
    {Line(part_no, q, "Panels", "") : part_no \in {"MF00M", "RF00M"}, q \in (-1)..MaxQuantity}
    \cup {StepLines[i] : i \in DOMAIN StepLines}

\* the lists handed over: at most two lines, or the three lines above
PartLists == ShortLists(PartItems) \cup {StepLines}

\* the requests whose module steps are run one at a time
StepRequests ==
    {[dimensions |-> Dimensions(f, h, 1),
      panel_options |-> DefaultPanelOptions,
      steel_options |-> [DefaultSteelOptions EXCEPT !.internal_material = m],
      accessory_options |-> DefaultAccessoryOptions,
      fittings |-> <<>>, exchange_rate |-> DefaultExchangeRate] :
        f \in GoldenDims, h \in Heights, m \in {"SS316", "SS304"}}

\* the ladder quantities a request may carry: -1 means Default
LadderQuantities == {-1, 0, 2}

\* requests that ask for ladder quantities
LadderRequests ==
    {[dimensions |-> Dimensions(f, 8, n),
      panel_options |-> DefaultPanelOptions,
      steel_options |-> DefaultSteelOptions,
      accessory_options |-> [DefaultAccessoryOptions EXCEPT
                                !.internal_ladder_qty = qi, !.external_ladder_qty = qe],
      fittings |-> <<>>, exchange_rate |-> DefaultExchangeRate] :
        f \in {<<20, 20, 0, 0, 0>>, <<40, 16, 8, 8, 0>>}, n \in 1..MaxQuantity,
        qi \in LadderQuantities, qe \in LadderQuantities}

InitEngine ==
    /\ request \in EngineRequests \cup StepRequests \cup LadderRequests
    /\ caller = "direct"
    /\ InitIdle

add_parts_from_calculator ==
    /\ op = "none"
    /\ \E ps \in PartLists :
         /\ parts' = ps
         /\ Becomes(Engine_add_parts_from_calculator(Self, ps))
    /\ before' = bom_items
    /\ op' = "add_parts_from_calculator"
    /\ UNCHANGED <<threads, callVars, calculator>>

calculate_fittings ==
    /\ op \in {"none", "add_parts_from_calculator", "calculate_etc"}
    /\ parts' = IF request.fittings = <<>> THEN <<>> ELSE Engine_fittings_parts(Self)
    /\ Becomes(Engine_calculate_fittings(Self))
    /\ before' = bom_items
    /\ op' = "calculate_fittings"
    /\ UNCHANGED <<threads, callVars, calculator>>

\* on a new engine, or on one that holds the lines of the first three steps
calculate_reinforcing ==
    /\ op = "none" \/ (op = "add_parts_from_calculator" /\ parts = StepLines)
    /\ calculator' = Engine_reinforcing_calculator(Self)
    /\ parts' = Reinf_calculate_all_parts(Engine_reinforcing_calculator(Self))
    /\ Becomes(Engine_calculate_reinforcing(Self))
    /\ before' = bom_items
    /\ op' = "calculate_reinforcing"
    /\ UNCHANGED <<threads, callVars>>

calculate_tie_rods ==
    /\ op \in {"none", "calculate_reinforcing"}
    \* below 2 m the method returns before it builds a calculator
    /\ calculator' = IF request.dimensions.height < 2 * 4 THEN calculator
                     ELSE Engine_tie_rod_calculator(Self)
    /\ parts' = Engine_tie_rod_parts(Self)
    /\ Becomes(Engine_calculate_tie_rods(Self))
    /\ before' = bom_items
    /\ op' = "calculate_tie_rods"
    /\ UNCHANGED <<threads, callVars>>

calculate_etc ==
    /\ op \in {"none", "calculate_tie_rods"}
    /\ calculator' = Engine_etc_calculator(Self)
    /\ parts' = ETC_calculate_all_parts(Engine_etc_calculator(Self))
    /\ Becomes(Engine_calculate_etc(Self))
    /\ before' = bom_items
    /\ op' = "calculate_etc"
    /\ UNCHANGED <<threads, callVars>>

\* engine._calculate_cost_summary() on the BOM the methods before it left
calculate_cost_summary ==
    /\ op \notin {"none", "calculate_cost_summary", "calculate_weight_summary"}
    /\ cost_summary' = Engine_calculate_cost_summary(Self)
    /\ op' = "calculate_cost_summary"
    /\ UNCHANGED <<threads, engineVars, calculateVars, weight_summary, parts, before, calculator>>

\* engine._calculate_weight_summary() on the BOM the methods before it left
calculate_weight_summary ==
    /\ op \notin {"none", "calculate_weight_summary"}
    /\ weight_summary' = Engine_calculate_weight_summary(Self)
    /\ op' = "calculate_weight_summary"
    /\ UNCHANGED <<threads, engineVars, calculateVars, cost_summary, parts, before, calculator>>

NextEngine ==
    \/ calculate_cost_summary
    \/ calculate_weight_summary
    \/ add_parts_from_calculator
    \/ calculate_fittings
    \/ calculate_reinforcing
    \/ calculate_tie_rods
    \/ calculate_etc

SpecEngine == InitEngine /\ [][NextEngine]_vars

(***************************************************************************)
(* Properties of the engine methods (specification SpecEngine)             *)
(***************************************************************************)
\* the BOM lines the last method appended
NewItems == SubSeq(bom_items, Len(before) + 1, Len(bom_items))

\* the parts of the last method that have a positive quantity
PositiveParts == PositiveOnly(parts)

\* C2: every BOM line has a quantity of at least 1, and a part handed over
\* with a quantity of zero or less adds no line: the lines a method appends
\* are as many as its parts of positive quantity.
C2_BomQuantitiesPositive ==
    /\ \A i \in DOMAIN bom_items : bom_items[i].quantity >= 1
    /\ op # "none" => Len(bom_items) = Len(before) + Len(PositiveParts)

\* C2 witness: a list with a part of quantity <= 0 and a part of positive
\* quantity was handed over, and one line was appended
C2_Witness ==
    /\ op = "add_parts_from_calculator"
    /\ Len(parts) = 2
    /\ \E i \in DOMAIN parts : parts[i].quantity <= 0
    /\ \E i \in DOMAIN parts : parts[i].quantity > 0
    /\ Len(bom_items) = 1

\* C3: each part line of per-unit quantity q > 0 handed to the engine, by a
\* calculator or by the fittings step, is appended to the BOM in order with
\* the same part number and quantity q * N, N the number of tanks.
C3_QuantityScaling ==
    op # "none" =>
        /\ Len(NewItems) = Len(PositiveParts)
        /\ \A i \in DOMAIN NewItems :
            /\ NewItems[i].part_no = PositiveParts[i].part_no
            /\ NewItems[i].quantity = PositiveParts[i].quantity * request.dimensions.quantity

\* C3 witness: for a request of more than one tank the fittings step has
\* appended lines after a calculator's lines, scaled by the number of tanks
C3_Witness ==
    /\ op = "calculate_fittings"
    /\ request.dimensions.quantity > 1
    /\ before # <<>>
    /\ Len(parts) = 2
    /\ NewItems[2].quantity = parts[2].quantity * request.dimensions.quantity
    /\ NewItems[2].quantity > parts[2].quantity

\* the request of the 5 x 5 x 4 m tank with every option at its default
Request5x5x4 == [Request5x5x2 EXCEPT !.dimensions.height = 16]

\* C11: for the 5 x 5 x 4 m tank with no partitions, the WST-0050RO line
\* the ETC step of the engine appends to the BOM has quantity 495.
C11_EtcStepTape495 ==
    (request = Request5x5x4 /\ op = "calculate_etc") =>
        QuantityOf(NewItems, "WST-0050RO") = 495

\* the engine for the request that differs from the one in hand only in
\* its internal_material
SelfWithInternalMaterial(material_str) ==
    [Self EXCEPT !.request.steel_options.internal_material = material_str]

\* the part numbers and quantities of a list of part lines
NumbersAndQuantities(lines) ==
    [i \in DOMAIN lines |-> <<lines[i].part_no, lines[i].quantity>>]

\* the internal reinforcing part numbers that carry the suffix SA2
InternalReinforcingSA2 ==
    {"WCP-1616SA2", "WCP-1780SA2", "WCP-17160SA2", "WCP-1760SA2", "WBR-9090SA2"}

\* C15: the reinforcing step gives the same part numbers and quantities
\* whether internal_material is SS316 or SS304, and its internal reinforcing
\* part numbers carry the suffix SA4 in both cases.
C15_ReinforcingSuffixFixed ==
    op = "calculate_reinforcing" =>
        /\ \A material_str \in {"SS316", "SS304"} :
              NumbersAndQuantities(parts) =
                  NumbersAndQuantities(Reinf_calculate_all_parts(
                      Engine_reinforcing_calculator(SelfWithInternalMaterial(material_str))))
        /\ \A i \in DOMAIN NewItems : NewItems[i].part_no \notin InternalReinforcingSA2

\* the panel list and the reinforcing list of the request in hand, as the
\* panels step and the reinforcing step compute them
RequestPanelParts ==
    Panel_calculate_all_panels(
        PanelCalculator(request.dimensions.width, request.dimensions.length1,
                        request.dimensions.length2, request.dimensions.length3,
                        request.dimensions.length4, request.dimensions.height,
                        request.panel_options.use_side_panel_1x1,
                        request.panel_options.use_partition_panel_1x1,
                        request.panel_options.insulated))
RequestReinforcingParts == Reinf_calculate_all_parts(Engine_reinforcing_calculator(Self))

\* the 50 mm tape line of the ETC calculator in hand when it is given the
\* panel data pd and the reinforcing data rd
TapeLineWith(pd, rd) ==
    ETC_calc_sealing_tape_50mm([calculator EXCEPT !.panel_data = pd, !.reinforcing_data = rd])

\* C19: the panel and reinforcing results are passed into the modules that
\* need them: the 50 mm tape of the ETC step is the tape computed from the
\* request's actual panel and reinforcing part lists, the dimension-only
\* fallback being used only when a list is unavailable (the bolts step
\* likewise receives the reinforcing cross-plate quantities).
C19_EtcUsesActualLists ==
    op = "calculate_etc" =>
        /\ calculator.panel_data = RequestPanelParts
        /\ calculator.reinforcing_data = RequestReinforcingParts
        /\ QuantityOf(NewItems, "WST-0050RO")
               = TapeLineWith(RequestPanelParts, RequestReinforcingParts).quantity
                 * request.dimensions.quantity

\* the categories a part line may carry
Categories ==
    {"Panels", "Steel Skid", "Bolts & Nuts", "External Reinforcing",
     "Internal Reinforcing", "Internal Tie-rod", "ETC", "Fittings"}

\* C21: every part line a module hands over, and so every BOM line, carries
\* a category of the fixed set Panels, Steel Skid, Bolts & Nuts, External
\* Reinforcing, Internal Reinforcing, Internal Tie-rod, ETC, Fittings.
C21_CategoriesFixedSet ==
    /\ \A i \in DOMAIN parts : parts[i].category \in Categories
    /\ \A i \in DOMAIN bom_items : bom_items[i].category \in Categories

\* the part number a request fitting names
NamedPart(fitting) == Join(fitting.fitting_type)

\* the sum of the quantities of the request fittings that name part_no
RECURSIVE RequestedQuantity(_, _)
RequestedQuantity(fittings, part_no) ==
    IF fittings = <<>> THEN 0
    ELSE (IF NamedPart(Head(fittings)) = part_no THEN Head(fittings).quantity ELSE 0)
         + RequestedQuantity(Tail(fittings), part_no)

\* every fitting of the request names a part number that is offered
OnlyOfferedFittings ==
    \A i \in DOMAIN request.fittings :
        NamedPart(request.fittings[i]) \in Fittings_get_available_fittings

\* C22: for a request whose fittings name offered part numbers, the
\* fittings step appends for each named part number P one line, of quantity
\* N x (the sum of the quantities of the request fittings naming P), and no
\* line under a part number the request does not name.
C22_FittingsByPartNumber ==
    (op = "calculate_fittings" /\ OnlyOfferedFittings) =>
        /\ \A i \in DOMAIN request.fittings :
              LET P == NamedPart(request.fittings[i])
              IN  /\ QuantityOf(NewItems, P)
                         = request.dimensions.quantity * RequestedQuantity(request.fittings, P)
                  /\ Cardinality({j \in DOMAIN NewItems : NewItems[j].part_no = P}) = 1
        /\ \A j \in DOMAIN NewItems :
              \E i \in DOMAIN request.fittings :
                  NewItems[j].part_no = NamedPart(request.fittings[i])

\* the quantity of a corner frame among the parts of the reinforcing
\* calculator
CornerFrames(length) == QuantityOf(parts, "WCF-" \o ToString(length) \o "Z")

\* C27 as stated: heights of exactly 1.0, 2.5 and 3.0 m use a 1000 mm corner
\* frame, heights 2.0, 3.0 and 3.5 m add a 2000 mm frame, and the taller
\* heights 4.0, 4.5 and 5.0 m use only the 2000 mm frame, more than four of
\* them.
C27_CornerFrameBucketsAsStated ==
    op = "calculate_reinforcing" =>
        /\ CornerFrames(1000) > 0 <=> request.dimensions.height \in {4, 10, 12}
        /\ request.dimensions.height \in {8, 12, 14} => CornerFrames(2000) > 0
        /\ request.dimensions.height \in {16, 18, 20} =>
               /\ CornerFrames(1000) = 0
               /\ CornerFrames(1500) = 0
               /\ CornerFrames(2000) > 4

\* C27: heights of exactly 1.0, 2.5 and 3.0 m use four 1000 mm corner frames
\* and no other height uses one, heights 2.0, 3.0 and 3.5 m have four
\* 2000 mm frames; of the taller heights 4.0 m uses eight 2000 mm frames
\* only, 4.5 m twelve 1500 mm frames only, and 5.0 m eight 1500 mm frames
\* with four 2000 mm frames.
C27_CornerFrameBuckets ==
    op = "calculate_reinforcing" =>
        /\ CornerFrames(1000) = (IF request.dimensions.height \in {4, 10, 12} THEN 4 ELSE 0)
        /\ request.dimensions.height \in {8, 12, 14} => CornerFrames(2000) = 4
        /\ request.dimensions.height = 16 =>
               CornerFrames(1500) = 0 /\ CornerFrames(2000) = 8
        /\ request.dimensions.height = 18 =>
               CornerFrames(1500) = 12 /\ CornerFrames(2000) = 0
        /\ request.dimensions.height = 20 =>
               CornerFrames(1500) = 8 /\ CornerFrames(2000) = 4

\* C27 witness: a tank of 3 m has four 1000 mm and four 2000 mm corner
\* frames
C27_Witness ==
    /\ op = "calculate_reinforcing"
    /\ request.dimensions.height = 12
    /\ CornerFrames(1000) = 4
    /\ CornerFrames(2000) = 4

\* C30: at every standard height from 1.0 to 5.0 m in steps of 0.5 m the
\* corner frames cover the height on the four corners:
\* 1000 q(WCF-1000Z) + 1500 q(WCF-1500Z) + 2000 q(WCF-2000Z) = 4 x height
\* in mm.
C30_CornerFramesCoverHeight ==
    (op = "calculate_reinforcing" /\ request.dimensions.height \in {2 * k : k \in 2..10}) =>
        1000 * CornerFrames(1000) + 1500 * CornerFrames(1500) + 2000 * CornerFrames(2000)
            = 4 * 250 * request.dimensions.height

\* C30 witness: a tank of 4.5 m has twelve 1500 mm corner frames, 18 m of
\* frame
C30_Witness ==
    /\ op = "calculate_reinforcing"
    /\ request.dimensions.height = 18
    /\ CornerFrames(1500) = 12
    /\ CornerFrames(1000) + CornerFrames(2000) = 0

\* the ladders a request asks for: the quantity given, or the default when
\* it is -1
LaddersAsked(qty, default) == IF qty >= 0 THEN qty ELSE default

\* C29: with internal_ladder_qty = k >= 0 (external_ladder_qty = k >= 0) the
\* BOM for N tanks has exactly k x N internal (external) ladders, and -1
\* selects the default count: PartitionCount + 1 internal ladders and one
\* external ladder.
C29_LadderQuantitiesHonoured ==
    op = "calculate_etc" =>
        /\ QuantityOf(NewItems, ETC_calc_internal_ladder(calculator).part_no)
               = request.dimensions.quantity
                 * LaddersAsked(request.accessory_options.internal_ladder_qty,
                                calculator.N_PA + 1)
        /\ QuantityOf(NewItems, ETC_calc_external_ladder(calculator).part_no)
               = request.dimensions.quantity
                 * LaddersAsked(request.accessory_options.external_ladder_qty, 1)

\* the sum of the totals of the lines of a BOM that are of the categories
RECURSIVE LineTotals(_, _)
LineTotals(items, categories) ==
    IF items = <<>> THEN 0
    ELSE (IF Head(items).category \in categories THEN Head(items).total_price_usd ELSE 0)
         + LineTotals(Tail(items), categories)

\* the sum of the weights of the lines of a BOM that are of the categories
RECURSIVE LineWeights(_, _)
LineWeights(items, categories) ==
    IF items = <<>> THEN 0
    ELSE (IF Head(items).category \in categories THEN Head(items).total_weight_kg ELSE 0)
         + LineWeights(Tail(items), categories)

\* the categories of the lines of the BOM in hand
BomCategories == {bom_items[i].category : i \in DOMAIN bom_items}

\* the sum of the eight amounts a CostSummary reports
ReportedAmounts(summary) ==
    summary.panels + summary.steel_skid + summary.bolts_nuts + summary.external_reinforcing
    + summary.internal_reinforcing + summary.internal_tie_rod + summary.etc + summary.fittings

\* C28: the summaries account for every BOM line exactly once: total_usd is
\* the sum of all the line totals and the sum of the eight reported
\* category amounts, each of which is the sum of the totals of the lines of
\* its own categories; total_kg is the sum of all the line weights and of
\* the three reported weights, each the sum of the weights of the lines of
\* its own categories; and total_sar is total_usd x exchange_rate within
\* half a cent.
C28_SummariesAccountForEveryLine ==
    /\ cost_summary # NoSummary =>
           /\ cost_summary.total_usd = LineTotals(bom_items, BomCategories)
           /\ cost_summary.total_usd = ReportedAmounts(cost_summary)
           /\ cost_summary.panels = LineTotals(bom_items, {"Panels"})
           /\ cost_summary.steel_skid = LineTotals(bom_items, {"Steel Skid"})
           /\ cost_summary.bolts_nuts = LineTotals(bom_items, {"Bolts & Nuts"})
           /\ cost_summary.external_reinforcing
                  = LineTotals(bom_items, {"External Reinforcing"})
           /\ cost_summary.internal_reinforcing
                  = LineTotals(bom_items, {"Internal Reinforcing"})
           /\ cost_summary.internal_tie_rod
                  = LineTotals(bom_items, {"Internal Tie-rod", "Tie Rods", "Tie Rod Accessories"})
           /\ cost_summary.etc = LineTotals(bom_items, {"ETC", "Etc"})
           /\ cost_summary.fittings = LineTotals(bom_items, {"Fittings"})
           /\ 100 * cost_summary.total_sar - cost_summary.total_usd * request.exchange_rate
                  \in (-50)..50
    /\ weight_summary # NoSummary =>
           /\ weight_summary.total_kg = LineWeights(bom_items, BomCategories)
           /\ weight_summary.total_kg = weight_summary.panels_kg + weight_summary.steel_kg
                                        + weight_summary.accessories_kg
           /\ weight_summary.panels_kg = LineWeights(bom_items, {"Panels"})
           /\ weight_summary.steel_kg
                  = LineWeights(bom_items, {"Steel Skid", "Bolts & Nuts", "External Reinforcing",
                                            "Internal Reinforcing", "Internal Tie-rod",
                                            "Tie Rods", "Tie Rod Accessories"})
           /\ weight_summary.accessories_kg
                  = LineWeights(bom_items, {"ETC", "Etc", "Fittings"})

\* C28 witness: both summaries of a BOM that has priced and weighted lines
\* of every reported category, the Fittings line put there by the fittings
\* step after the lines of all the steps before it
C28_Witness ==
    /\ op = "calculate_weight_summary"
    /\ cost_summary # NoSummary
    /\ bom_items # <<>>
    /\ bom_items[Len(bom_items)].category = "Fittings"
    /\ \A amount \in {cost_summary.panels, cost_summary.steel_skid, cost_summary.bolts_nuts,
                       cost_summary.external_reinforcing, cost_summary.internal_reinforcing,
                       cost_summary.internal_tie_rod, cost_summary.etc,
                       cost_summary.fittings} : amount > 0
    /\ cost_summary.total_sar > cost_summary.total_usd
    /\ weight_summary.panels_kg > 0
    /\ weight_summary.steel_kg > 0
    /\ weight_summary.accessories_kg > 0

(***************************************************************************)
(* Properties of the calculators (specification SpecCalculators)           *)
(***************************************************************************)
\* the number of non-zero length2..length4 of the request
PartitionCount ==
    CountPositive(<<request.dimensions.length2, request.dimensions.length3,
                    request.dimensions.length4>>)

\* total quantity of the lines of ps whose description is in descriptions
Qty(ps, descriptions) ==
    SumQuantity(SelectSeq(ps, LAMBDA p : p.description \in descriptions))

\* C7: the manhole count, the drain-panel count and the internal-ladder
\* count each equal PartitionCount + 1 (hence none of them decreases when
\* PartitionCount grows with everything else fixed).
C7_OnePerSection ==
    /\ op = "calculate_all_panels" =>
        /\ Qty(parts, {"Manhole Panel"}) = PartitionCount + 1
        /\ Qty(parts, {"Drain Panel"}) = PartitionCount + 1
    /\ op = "calc_internal_ladder" =>
        /\ Len(parts) = 1
        /\ parts[1].quantity = PartitionCount + 1

\* C7 witness: a tank with two partitions has three manholes and drains
C7_Witness ==
    /\ op = "calculate_all_panels"
    /\ PartitionCount = 2
    /\ Qty(parts, {"Manhole Panel"}) = 3
    /\ Qty(parts, {"Drain Panel"}) = 3

\* 2 * (W_C + sum of L_C) - 2 * PartitionCount for the request in hand
SideFullCount ==
    2 * (IntPart(request.dimensions.width)
         + IntPart(request.dimensions.length1) + IntPart(request.dimensions.length2)
         + IntPart(request.dimensions.length3) + IntPart(request.dimensions.length4))
    - 2 * PartitionCount

TopFull == Qty(parts, {"Side Panel", "Side Panel (Top)"})
TopLeft == Qty(parts, {"Corner Side Panel (Left)", "Corner Side Panel (Top Left)"})
TopRight == Qty(parts, {"Corner Side Panel (Right)", "Corner Side Panel (Top Right)"})
LowFull == Qty(parts, {"Side Panel (Low)"})
LowLeft == Qty(parts, {"Corner Side Panel (Low Left)"})
LowRight == Qty(parts, {"Corner Side Panel (Low Right)"})
MidFull == Qty(parts, {"Side Panel (Mid)"})
MidLeft == Qty(parts, {"Corner Side Panel (Mid Left)"})
MidRight == Qty(parts, {"Corner Side Panel (Mid Right)"})

\* the mid-tier lines carry the part numbers SF30M, SF30ML, SF30MR
MidTierPartNumbers ==
    \A i \in DOMAIN parts :
        /\ parts[i].description = "Side Panel (Mid)" => parts[i].part_no = "SF30M"
        /\ parts[i].description = "Corner Side Panel (Mid Left)" => parts[i].part_no = "SF30ML"
        /\ parts[i].description = "Corner Side Panel (Mid Right)" => parts[i].part_no = "SF30MR"

\* the three counts of each tier when the full-panel count is full
SideTiers(full) ==
    /\ TopFull = full /\ TopLeft = PartitionCount /\ TopRight = PartitionCount
    /\ LowFull = (IF request.dimensions.height >= 10 THEN full ELSE 0)
    /\ LowLeft = (IF request.dimensions.height >= 10 THEN PartitionCount ELSE 0)
    /\ LowRight = (IF request.dimensions.height >= 10 THEN PartitionCount ELSE 0)
    /\ MidFull = (IF request.dimensions.height >= 16 THEN full ELSE 0)
    /\ MidLeft = (IF request.dimensions.height >= 16 THEN PartitionCount ELSE 0)
    /\ MidRight = (IF request.dimensions.height >= 16 THEN PartitionCount ELSE 0)
    /\ MidTierPartNumbers

\* the 5 x 5 m footprint has 20 side panels at 2 m, 20 low-tier panels at
\* 3 m and 20 mid-tier panels at 4 m
SideGolden5x5 ==
    (request.dimensions.width = 20 /\ request.dimensions.length1 = 20 /\ PartitionCount = 0) =>
        /\ request.dimensions.height = 8 => TopFull = 20 /\ LowFull = 0 /\ MidFull = 0
        /\ request.dimensions.height = 12 => LowFull = 20 /\ MidFull = 0
        /\ request.dimensions.height = 16 => MidFull = 20

\* C9 as stated: the top tier has 2*(W_C + sum L_C) - 2*PartitionCount full
\* panels and PartitionCount left and right corner panels, the low tier has
\* the same counts exactly when height >= 2.5 m, the mid tier (SF30M,
\* SF30ML, SF30MR) exactly when height >= 4 m; 20 panels for 5x5 at 2, 3, 4 m.
C9_SideTiersAsStated ==
    op = "calculate_all_panels" => SideTiers(SideFullCount) /\ SideGolden5x5

\* C9 amended: the same, with the full-panel count of every tier
\* max(0, 2*(W_C + sum L_C) - 2*PartitionCount): where the corner panels
\* outnumber the unit side positions no full side panel line is returned.
C9_SideTiersClamped ==
    op = "calculate_all_panels" => SideTiers(Max(0, SideFullCount)) /\ SideGolden5x5

\* C9 witness: a partitioned tank of 4 m or more with full and corner panels
\* in the top, mid and low tiers
C9_Witness ==
    /\ op = "calculate_all_panels"
    /\ request.dimensions.height >= 16
    /\ PartitionCount >= 1
    /\ SideFullCount > 0
    /\ TopFull = SideFullCount /\ MidFull = SideFullCount /\ LowFull = SideFullCount
    /\ MidLeft = PartitionCount /\ LowRight = PartitionCount

\* C10: the full-roof count is max(0, W_C * sum L_C - manholes - quarter-roof
\* panels), the full-bottom count is max(0, W_C * sum L_C - partition-bottom
\* panels - drains), and no returned panel line has a quantity <= 0.
C10_PanelEdgePolicy ==
    op = "calculate_all_panels" =>
        LET total == calculator.W_C * calculator.L_O_C
        IN  /\ Qty(parts, {"Roof Panel 1x1m"})
                 = Max(0, total - Qty(parts, {"Manhole Panel"})
                                - Qty(parts, {"Quarter Roof Panel 0.5x0.5m"}))
            /\ Qty(parts, {"Bottom Panel 1x1m"})
                 = Max(0, total - Qty(parts, {"Partition Bottom Panel"})
                                - Qty(parts, {"Drain Panel"}))
            /\ \A i \in DOMAIN parts : parts[i].quantity >= 1

\* C10 witness: a footprint with fewer unit positions than manholes and
\* drains; neither a full-roof nor a full-bottom line is returned
C10_Witness ==
    /\ op = "calculate_all_panels"
    /\ calculator.W_C * calculator.L_O_C < Qty(parts, {"Manhole Panel"})
    /\ calculator.W_C * calculator.L_O_C < Qty(parts, {"Drain Panel"})
    /\ Qty(parts, {"Roof Panel 1x1m"}) = 0
    /\ Qty(parts, {"Bottom Panel 1x1m"}) = 0
    /\ parts # <<>>

\* the partition lines of the last method: the partition bottom panel and
\* SN30M of the panel calculator, the M10x58 rubber bolt of the bolts calculator
PartitionBottom == Qty(parts, {"Partition Bottom Panel"})
PartitionMid == QuantityOf(parts, "SN30M")
PartitionRubberBolt ==
    QuantityOf(parts, "WBT-1058R" \o BOLT_OPTIONS[calculator.bolt_option].internal)

\* the default bolt options: 1 of BoltsCalculator, 4 of the engine's mapping
DefaultBoltOptions == {1, 4}

\* C12 as stated: the partition-specific parts appear exactly when
\* PartitionCount > 0: the partition bottom panel with quantity
\* W_C * PartitionCount, SN30M with that quantity only when height >= 4 m as
\* well, and the M10x58 rubber bolt WBT-1058R under the default bolt option;
\* an unpartitioned tank has none of them.
C12_PartitionPartsAsStated ==
    /\ op = "calculate_all_panels" =>
        /\ PartitionBottom > 0 <=> PartitionCount > 0
        /\ PartitionBottom > 0 => PartitionBottom = calculator.W_C * PartitionCount
        /\ PartitionMid > 0 <=> (PartitionCount > 0 /\ request.dimensions.height >= 16)
        /\ PartitionMid > 0 => PartitionMid = calculator.W_C * PartitionCount
    /\ (op = "bolts_calculate_all_parts" /\ calculator.bolt_option \in DefaultBoltOptions) =>
        (PartitionRubberBolt > 0 <=> PartitionCount > 0)

\* C12 amended: the partition bottom panel line has quantity
\* W_C * PartitionCount and SN30M has that quantity when height >= 4 m, each
\* line being absent when its quantity is 0 (no partition, or width < 1 m);
\* the M10x58 rubber bolt line is present exactly when PartitionCount > 0.
C12_PartitionParts ==
    /\ op = "calculate_all_panels" =>
        /\ PartitionBottom = calculator.W_C * PartitionCount
        /\ PartitionMid = (IF request.dimensions.height >= 16
                           THEN calculator.W_C * PartitionCount ELSE 0)
    /\ (op = "bolts_calculate_all_parts" /\ calculator.bolt_option \in DefaultBoltOptions) =>
        (PartitionRubberBolt > 0 <=> PartitionCount > 0)

\* C12 witness: width 10 m with the sections 4 + 2 + 2 m: 20 partition
\* bottom panels
C12_Witness ==
    /\ op = "calculate_all_panels"
    /\ request.dimensions.width = 40
    /\ PartitionCount = 2
    /\ PartitionBottom = 20

\* the skid type the claim names for a height under the Default selection
SkidTypeForHeight(H_O) ==
    IF H_O * 10 > 43 * 4 THEN SKID_TYPE_150_CHANNEL
    ELSE IF H_O * 10 > 25 * 4 THEN SKID_TYPE_125_CHANNEL
    ELSE SKID_TYPE_75_ANGLE

\* the parts of the steel-skid calculator for the request in hand when
\* skid_type is selected
SkidPartsSelecting(skid_type) ==
    Skid_calculate_all_parts(
        SteelSkidCalculator(request.dimensions.width, request.dimensions.length1,
                            request.dimensions.length2, request.dimensions.length3,
                            request.dimensions.length4, request.dimensions.height, skid_type))

\* C13: with the Default selection the skid type is the 150 channel when
\* H > 4.3 m, the 125 channel when 2.5 < H <= 4.3 m and the 75 angle
\* otherwise, and the parts are those of that type selected explicitly;
\* with the selection Except SKB no part is returned.
C13_SkidTypeResolution ==
    op = "skid_calculate_all_parts" =>
        /\ calculator.skid_type = SKID_TYPE_DEFAULT =>
            /\ calculator.actual_skid_type =
                   Skid_resolve_skid_type(SkidTypeForHeight(request.dimensions.height), 0)
            /\ parts = SkidPartsSelecting(SkidTypeForHeight(request.dimensions.height))
        /\ calculator.skid_type = SKID_TYPE_EXCEPT => parts = <<>>

\* C13 witness: a tank of 4.5 m under the Default selection has the parts
\* of the 150 channel, which are not those of the 125 channel
C13_Witness ==
    /\ op = "skid_calculate_all_parts"
    /\ calculator.skid_type = SKID_TYPE_DEFAULT
    /\ request.dimensions.height = 18
    /\ calculator.actual_skid_type = "150_channel"
    /\ parts # <<>>
    /\ parts # SkidPartsSelecting(SKID_TYPE_125_CHANNEL)

\* the material suffixes of the bolt lines
BoltMaterials == {"Z", "SA4", "SA2"}

\* the descriptions of the external panel-assembly bolt lines
ExternalAssemblyBolts ==
    {size \o " Bolt (" \o m \o ")" :
        size \in {"M10x35mm", "M10x50mm", "M12x40mm", "M14x40mm"}, m \in BoltMaterials}

\* the descriptions of the internal-material bolt lines: roof bolts,
\* partition rubber bolts, internal reinforcing bolts
InternalBolts ==
    {kind \o " (" \o m \o ")" :
        kind \in {"M10x35mm Roof Bolt", "M10x50mm Roof/Partition Bolt",
                  "M10x58mm Rubber Bolt", "M14x120mm Rubber Internal Bolt"},
        m \in BoltMaterials}

\* the description of the reinforcing bolt line
ReinforcingBolts == {"M14x120mm Rubber HDG Bolt"}

\* the parts of the bolts calculator in hand had bolt_option been selected
BoltPartsSelecting(bolt_option) ==
    Bolts_calculate_all_parts([calculator EXCEPT !.bolt_option = bolt_option,
                                                 !.bolt_config = BOLT_OPTIONS[bolt_option]])

\* C14: Except All Bolts (option 7) returns no bolt line; Except Panel
\* Assemble Bolts (option 8) leaves out the external panel-assembly bolts
\* only: the internal-material bolts (roof, partition rubber, internal
\* reinforcing) and the reinforcing bolts are returned as under an option
\* that leaves nothing out.
C14_BoltOptions ==
    op = "bolts_calculate_all_parts" =>
        /\ calculator.bolt_option = 7 => parts = <<>>
        /\ calculator.bolt_option = 8 =>
            /\ Qty(parts, ExternalAssemblyBolts) = 0
            /\ Qty(parts, InternalBolts) = Qty(BoltPartsSelecting(1), InternalBolts)
            /\ Qty(parts, ReinforcingBolts) = Qty(BoltPartsSelecting(1), ReinforcingBolts)

\* C16: for a tank of height < 2 m, whatever its width and partitions,
\* TieRodCalculator returns no tie rod, no connector and no nut or washer
\* line.
C16_NoTieRodsBelow2m ==
    (op = "tie_rod_calculate_all_parts" /\ request.dimensions.height < 8) => parts = <<>>

\* the tie rods, nuts and washers among the parts of the tie-rod calculator
RodQuantity ==
    SumQuantity(SelectSeq(parts, LAMBDA p : p.category = "Tie Rods"
                                            /\ p.description # "Tie Rod Connector"))
NutQuantity == Qty(parts, {"T/Rod Nut M12", "T/Rod Nut M16"})
WasherQuantity == Qty(parts, {"T/Rod Washer M12", "T/Rod Washer M16"})

\* the tank of the given footprint and height, in metres, without partitions
IsTank(width, length1, height) ==
    /\ request.dimensions.width = 4 * width
    /\ request.dimensions.length1 = 4 * length1
    /\ request.dimensions.height = 4 * height
    /\ PartitionCount = 0

\* C17: the nut and washer quantities are equal and each is 4 x the number
\* of tie-rod assemblies; for width <= 5 m the number of assemblies is the
\* tie-rod quantity returned; 5x5x3 has 24 rods, 96 nuts and 96 washers.
C17_NutsAndWashers ==
    op = "tie_rod_calculate_all_parts" =>
        /\ NutQuantity = WasherQuantity
        /\ NutQuantity = 4 * TieRod_assemblies(calculator)
        /\ request.dimensions.width <= 20 => NutQuantity = 4 * RodQuantity
        /\ IsTank(5, 5, 3) => RodQuantity = 24 /\ NutQuantity = 96 /\ WasherQuantity = 96

\* C17 witness: the 5 x 5 x 3 m tank with its 24 rods and 96 nuts
C17_Witness ==
    /\ op = "tie_rod_calculate_all_parts"
    /\ IsTank(5, 5, 3)
    /\ RodQuantity = 24
    /\ NutQuantity = 96

\* C18: the unpartitioned 10 x 5 x 3 m tank has 27 + 12 = 39 tie-rod
\* assemblies, width and length direction together, hence 156 nuts and 156
\* washers.
C18_WideTankNuts156 ==
    (op = "tie_rod_calculate_all_parts" /\ IsTank(10, 5, 3)) =>
        NutQuantity = 156 /\ WasherQuantity = 156

\* the quantity of anchor brackets the steel-skid calculator returns for the
\* footprint and skid type in hand at height H_O
AnchorQuantityAt(H_O) ==
    QuantityOf(Skid_calculate_all_parts(
                   SteelSkidCalculator(request.dimensions.width, request.dimensions.length1,
                                       request.dimensions.length2, request.dimensions.length3,
                                       request.dimensions.length4, H_O, calculator.skid_type)),
               "WBR-5010Z")

\* width plus total length, in quarter metres
FootprintSum ==
    request.dimensions.width + request.dimensions.length1 + request.dimensions.length2
        + request.dimensions.length3 + request.dimensions.length4

\* C25 as stated: for every footprint the quantity of anchor brackets
\* (WBR-5010Z) at any height above 3 m is exactly twice the quantity at any
\* height of at most 3 m.
C25_AnchorBracketsDoubleAsStated ==
    op = "skid_calculate_all_parts" =>
        \A H_O \in Heights :
            /\ (request.dimensions.height > 12 /\ H_O <= 12) =>
                   QuantityOf(parts, "WBR-5010Z") = 2 * AnchorQuantityAt(H_O)
            /\ (request.dimensions.height <= 12 /\ H_O > 12) =>
                   AnchorQuantityAt(H_O) = 2 * QuantityOf(parts, "WBR-5010Z")

\* C25: for every footprint, s being width plus total length in metres, the
\* quantity of anchor brackets (WBR-5010Z) is int(s) at any height of at
\* most 3 m and int(2 s) at any height above 3 m, no line standing for 0:
\* the tall quantity is twice the low one when the fractional part of s is
\* below one half, and twice the low one plus one otherwise.  With the
\* steel skid excepted there is no bracket at any height.
C25_AnchorBracketsDouble ==
    op = "skid_calculate_all_parts" =>
        \E low \in {IF calculator.actual_skid_type = "except" THEN 0
                     ELSE Trunc(FootprintSum, 4)} :
        \E tall \in {IF calculator.actual_skid_type = "except" THEN 0
                      ELSE Trunc(2 * FootprintSum, 4)} :
        \E odd \in {IF FootprintSum % 4 < 2 \/ calculator.actual_skid_type = "except"
                     THEN 0 ELSE 1} :
            /\ QuantityOf(parts, "WBR-5010Z")
                   = IF request.dimensions.height > 12 THEN tall ELSE low
            /\ \A H_O \in Heights :
                   /\ AnchorQuantityAt(H_O) = IF H_O > 12 THEN tall ELSE low
                   /\ (request.dimensions.height > 12 /\ H_O <= 12) =>
                          QuantityOf(parts, "WBR-5010Z") = 2 * AnchorQuantityAt(H_O) + odd
                   /\ (request.dimensions.height <= 12 /\ H_O > 12) =>
                          AnchorQuantityAt(H_O) = 2 * QuantityOf(parts, "WBR-5010Z") + odd

\* C25 witness: the 5 x 5 m footprint at 4 m has 20 anchor brackets, and 10
\* at 3 m
C25_Witness ==
    /\ op = "skid_calculate_all_parts"
    /\ request.dimensions.width = 20
    /\ FootprintSum = 40
    /\ request.dimensions.height = 16
    /\ QuantityOf(parts, "WBR-5010Z") = 20
    /\ AnchorQuantityAt(12) = 10

\* the rod length _calc_partitioned_tie_rods takes for a compartment
SegmentRodLength(length) == TieRod_get_standard_length(TieRod_base_length(length))

\* the compartments after the first that are at most 1 m long
ShortSegments ==
    {i \in 2..4 : calculator.length[i] > 0 /\ calculator.length[i] <= 4}

\* the rod lengths only compartments of at most 1 m are sized for: no longer
\* compartment takes the length, and it is not the 4000 mm rod that spans
\* the width
ShortSegmentRodLengths ==
    {SegmentRodLength(calculator.length[i]) : i \in ShortSegments}
        \ ({4000} \cup {SegmentRodLength(calculator.length[i]) :
                            i \in {j \in 1..4 : calculator.length[j] > 4}})

\* C26: a length segment of 1 m or less contributes no tie rod: in a wide
\* partitioned tank no rod line is sized for a compartment of at most 1 m.
C26_ShortSegmentsNoRod ==
    (op = "tie_rod_calculate_all_parts" /\ calculator.W_O > 20) =>
        \A length \in ShortSegmentRodLengths :
            QuantityOf(parts, "TR-" \o calculator.spec_prefix \o ToString(length)
                                  \o calculator.material_suffix) = 0

(***************************************************************************)
(* The DataLoader singleton under threads (specification SpecLoader).      *)
(* Each thread calls get_part_info once.  A step is one evaluation of the  *)
(* emptiness test of a cache, one iteration of a filling loop, or the two  *)
(* dictionary reads that end get_part_info; the interpreter may switch     *)
(* threads between any two of them.                                        *)
(***************************************************************************)
\* the part numbers looked up: two of the catalogue, one that is not in it
LookupParts == {"MF00M", "WSD-050A", "RF00M"}

InitLoader ==
    /\ request = Request5x5x2
    /\ caller = "direct"
    /\ InitIdle

\* a thread enters get_part_info(part_no)
get_part_info(t) ==
    /\ threads[t].pc = "idle"
    /\ \E part_no \in LookupParts :
         threads' = [threads EXCEPT ![t].pc = "get_prices", ![t].call = "get_part_info",
                                    ![t].part_no = part_no]
    /\ UNCHANGED <<engineVars, callVars, directVars>>

\* a thread enters the public get_weight(part_no), which calls get_weights()
\* and never get_prices()
get_weight(t) ==
    /\ threads[t].pc = "idle"
    /\ \E part_no \in LookupParts :
         threads' = [threads EXCEPT ![t].pc = "get_weights", ![t].call = "get_weight",
                                    ![t].part_no = part_no]
    /\ UNCHANGED <<engineVars, callVars, directVars>>

\* a thread enters the public get_price(part_no), which calls get_prices()
\* and never get_weights()
get_price(t) ==
    /\ threads[t].pc = "idle"
    /\ \E part_no \in LookupParts :
         threads' = [threads EXCEPT ![t].pc = "get_prices", ![t].call = "get_price",
                                    ![t].part_no = part_no]
    /\ UNCHANGED <<engineVars, callVars, directVars>>

\* GET /prices: a thread calls get_prices() and nothing else of the loader
list_all_prices(t) ==
    /\ threads[t].pc = "idle"
    /\ threads' = [threads EXCEPT ![t].pc = "get_prices", ![t].call = "get_prices"]
    /\ UNCHANGED <<engineVars, callVars, directVars>>

\* a thread calls the public get_weights() on its own
all_weights(t) ==
    /\ threads[t].pc = "idle"
    /\ threads' = [threads EXCEPT ![t].pc = "get_weights", ![t].call = "get_weights"]
    /\ UNCHANGED <<engineVars, callVars, directVars>>

\* where get_prices() returns to: the get_weights() of get_part_info, the
\* prices.get(part_no, {}) of get_price, or its own caller
AfterPrices(call) ==
    CASE call = "get_price" -> "price_lookup"
      [] call = "get_prices" -> "returned"
      [] OTHER -> "get_weights"

\* get_prices: if not self._prices_cache, then _load_json
get_prices(t) ==
    /\ threads[t].pc = "get_prices"
    /\ threads' = IF prices_cache = {}
                  THEN [threads EXCEPT ![t].pc = "fill_prices", ![t].i = 1]
                  ELSE [threads EXCEPT ![t].pc = AfterPrices(threads[t].call)]
    /\ UNCHANGED <<engineVars, callVars, directVars>>

\* one iteration of for item in prices_data
fill_prices(t) ==
    /\ threads[t].pc = "fill_prices"
    /\ prices_cache' = Loader_put_price(prices_cache, PRICES_FILE[threads[t].i])
    /\ threads' = IF threads[t].i < Len(PRICES_FILE)
                  THEN [threads EXCEPT ![t].i = @ + 1]
                  ELSE [threads EXCEPT ![t].pc = AfterPrices(threads[t].call), ![t].i = 0]
    /\ UNCHANGED <<request, bom_items, weights_cache, callVars, directVars>>

\* where get_weights() returns to: the lookup of get_part_info, the
\* weights.get(part_no, 0) of get_weight, or its own caller
AfterWeights(call) ==
    CASE call = "get_weight" -> "weight_lookup"
      [] call = "get_weights" -> "returned"
      [] OTHER -> "lookup"

\* get_weights: if not self._weights_cache, then _load_json
get_weights(t) ==
    /\ threads[t].pc = "get_weights"
    /\ threads' = IF weights_cache = {}
                  THEN [threads EXCEPT ![t].pc = "fill_weights", ![t].i = 1]
                  ELSE [threads EXCEPT ![t].pc = AfterWeights(threads[t].call)]
    /\ UNCHANGED <<engineVars, callVars, directVars>>

\* one iteration of for item in weights_data
fill_weights(t) ==
    /\ threads[t].pc = "fill_weights"
    /\ weights_cache' = Loader_put_weight(weights_cache, WEIGHTS_FILE[threads[t].i])
    /\ threads' = IF threads[t].i < Len(WEIGHTS_FILE)
                  THEN [threads EXCEPT ![t].i = @ + 1]
                  ELSE [threads EXCEPT ![t].pc = AfterWeights(threads[t].call), ![t].i = 0]
    /\ UNCHANGED <<request, bom_items, prices_cache, callVars, directVars>>

\* prices.get(part_no, {}) and weights.get(part_no, 0)
lookup(t) ==
    /\ threads[t].pc = "lookup"
    /\ threads' = [threads EXCEPT
                     ![t].pc = "done",
                     ![t].result = Loader_part_info(prices_cache, weights_cache,
                                                    threads[t].part_no)]
    /\ UNCHANGED <<engineVars, callVars, directVars>>

\* return weights.get(part_no, 0) of get_weight
weight_lookup(t) ==
    /\ threads[t].pc = "weight_lookup"
    /\ threads' = [threads EXCEPT
                     ![t].pc = "returned",
                     ![t].result =
                         [NoInfo EXCEPT
                            !.part_no = threads[t].part_no,
                            !.weight_kg = Loader_part_info({}, weights_cache,
                                                           threads[t].part_no).weight_kg]]
    /\ UNCHANGED <<engineVars, callVars, directVars>>

\* part_data = prices.get(part_no, {}); return part_data.get("price_usd", 0)
price_lookup(t) ==
    /\ threads[t].pc = "price_lookup"
    /\ threads' = [threads EXCEPT
                     ![t].pc = "returned",
                     ![t].result =
                         [NoInfo EXCEPT
                            !.part_no = threads[t].part_no,
                            !.price_usd = Loader_part_info(prices_cache, {},
                                                           threads[t].part_no).price_usd]]
    /\ UNCHANGED <<engineVars, callVars, directVars>>

NextLoader ==
    \E t \in Threads :
        \/ get_part_info(t)
        \/ get_price(t)
        \/ list_all_prices(t)
        \/ price_lookup(t)
        \/ get_weight(t)
        \/ all_weights(t)
        \/ weight_lookup(t)
        \/ get_prices(t)
        \/ fill_prices(t)
        \/ get_weights(t)
        \/ fill_weights(t)
        \/ lookup(t)

SpecLoader == InitLoader /\ [][NextLoader]_vars

\* what get_part_info answers from the fully loaded catalogue
FullCatalogInfo(part_no) ==
    Loader_part_info(Loader_get_prices({}), Loader_get_weights({}), part_no)

\* C6: no lookup sees a partly filled catalogue: for a part the fully loaded
\* catalogue contains, the answer of get_part_info is never "missing"
\* (price 0, weight 0), whatever the other threads are doing.
C6_NoPartialCatalog ==
    \A t \in Threads :
        (threads[t].pc = "done" /\ FullCatalogInfo(threads[t].part_no).found) =>
            /\ threads[t].result.found
            /\ threads[t].result.price_usd = FullCatalogInfo(threads[t].part_no).price_usd
            /\ threads[t].result.weight_kg = FullCatalogInfo(threads[t].part_no).weight_kg

\* the height code of the bottom and drain suffix the nearest-key lookup
\* chooses for the panel calculator in hand
NearestHeightCode == PANEL_HEIGHT_CONFIG[Panel_get_height_key(calculator)].bottom[1]

\* the part number each low-tier description has with the height code code
LowTierPartNo(description, code) ==
    CASE description = "Side Panel (Low)" -> "SF" \o code \o "L"
      [] description = "Corner Side Panel (Low Left)" -> "SF" \o code \o "LL"
      [] description = "Corner Side Panel (Low Right)" -> "SF" \o code \o "LR"
      [] description = "Partition Panel (Low)" -> "PF" \o code \o "M"

LowTierDescriptions ==
    {"Side Panel (Low)", "Corner Side Panel (Low Left)", "Corner Side Panel (Low Right)",
     "Partition Panel (Low)"}

\* C23: the height-dependent panel part numbers use the nearest standard
\* height: for every accepted height the height code of the side-low
\* (SF..L) and partition-low (PF..M) part numbers is the height code of the
\* bottom and drain suffix that the nearest-key lookup chooses.
C23_HeightTierContinuity ==
    op = "calculate_all_panels" =>
        \A i \in DOMAIN parts :
            parts[i].description \in LowTierDescriptions =>
                parts[i].part_no = LowTierPartNo(parts[i].description, NearestHeightCode)

\* the request's footprint lies on the half-metre grid
HalfMetreGrid ==
    /\ request.dimensions.width % 2 = 0
    /\ request.dimensions.length1 % 2 = 0 /\ request.dimensions.length2 % 2 = 0
    /\ request.dimensions.length3 % 2 = 0 /\ request.dimensions.length4 % 2 = 0

\* the full-roof count of the panel calculator in hand before it is clamped
RoofFullUnclamped ==
    calculator.W_C * calculator.L_O_C - Qty(parts, {"Manhole Panel"})
    - Qty(parts, {"Quarter Roof Panel 0.5x0.5m"})

\* the area of the roof lines, in quarters of a square metre
RoofLinesArea ==
    4 * (Qty(parts, {"Manhole Panel"}) + Qty(parts, {"Roof Panel 1x1m"}))
    + 2 * Qty(parts, {"Half Roof Panel 0.5x1m"})
    + Qty(parts, {"Quarter Roof Panel 0.5x0.5m"})

\* width x total length, in quarters of a square metre
FootprintArea ==
    (request.dimensions.width
     * (request.dimensions.length1 + request.dimensions.length2
        + request.dimensions.length3 + request.dimensions.length4)) \div 4

\* C24: for every footprint on the half-metre grid whose full-roof count
\* is not clamped, manholes + full roof panels + 0.5 x half roof panels
\* + 0.25 x quarter roof panels is width x total length in square metres.
C24_RoofTilingExact ==
    (op = "calculate_all_panels" /\ HalfMetreGrid /\ RoofFullUnclamped >= 0) =>
        RoofLinesArea = FootprintArea

(***************************************************************************)
(* Parts the catalogue does not have (specification SpecEngine)            *)
(***************************************************************************)
\* the fields of BOMItem
BOMItemFields ==
    {"part_no", "part_name", "quantity", "unit_price_usd", "total_price_usd",
     "weight_kg", "total_weight_kg", "category"}

\* the lines the last method appended for part numbers the catalogue lacks
MissLines == SelectSeq(NewItems, LAMBDA b : ~FullCatalogInfo(b.part_no).found)

\* the parts handed over with a positive quantity that the catalogue lacks
MissParts == SelectSeq(PositiveParts, LAMBDA p : ~FullCatalogInfo(p.part_no).found)

\* C20: a part number the catalogue lacks is not fatal: its BOM line is
\* appended with its computed quantity, unit price 0, weight 0 and zero
\* totals, and the line carries a flag, a field beyond those of a catalogued
\* line, by which an operator can tell it from a catalogued part.
C20_CatalogMissFlagged ==
    op # "none" =>
        /\ Len(MissLines) = Len(MissParts)
        /\ \A i \in DOMAIN MissLines :
            /\ MissLines[i].part_no = MissParts[i].part_no
            /\ MissLines[i].quantity = MissParts[i].quantity * request.dimensions.quantity
            /\ MissLines[i].unit_price_usd = 0 /\ MissLines[i].total_price_usd = 0
            /\ MissLines[i].weight_kg = 0 /\ MissLines[i].total_weight_kg = 0
            /\ DOMAIN MissLines[i] # BOMItemFields

====
